---------------------------- MODULE Spec2Model ----------------------------
(***************************************************************************)
(* IHMCInterfaceNode: the readiness/aggregation state machine of           *)
(* ihmc_nodes/ihmc_interface_node.cpp, the driver loop of its main(), and  *)
(* the command assembly of ihmc_utils/ihmc_msg_utilities.cpp.              *)
(*                                                                         *)
(* Vectors (Eigen, std::vector) are functions over 0..n-1 so that the      *)
(* source's indices are kept.  Doubles are small integers; times and       *)
(* durations are in hundredths of a second (1.0 is 100, 0.13 is 13).       *)
(* The wall-clock timestamp of a queueable message is not modelled.        *)
(* ros::ok() is taken to hold while the loop runs: process shutdown        *)
(* belongs to the surrounding layer.                                       *)
(***************************************************************************)
EXTENDS Integers, Sequences, FiniteSets

VARIABLES
    commands_from_controllers_,   \* parameter: TRUE continuous, FALSE one-shot
    receive_pelvis_transform_,    \* accepting pose
    receive_joint_command_,       \* accepting joints
    receive_link_ids_,            \* accepting links
    received_pelvis_transform_,
    received_joint_command_,
    received_link_ids_,
    publish_commands_,            \* getPublishCommandsFlag()
    stop_node_,                   \* getStopNodeFlag()
    home_left_arm_, home_right_arm_, home_chest_, home_pelvis_,
    publish_go_home_command_,     \* getPublishGoHomeCommandFlag()
    status_,                      \* last recognised status string
    controlled_links_,            \* std::vector<int>, in message order
    tf_pelvis_wrt_world_,         \* tf::Transform: origin and rotation
    q_joint_,                     \* dynacore::Vector of actuated joints
    pc,                           \* position of main(): "check", "spin", "done"
    published,                    \* what the last step handed to the transport
    listening,                    \* history: last START/STOP signal processed
    last_op,                      \* history: the operation of the last step
    pre,                          \* history: flags, joints, links before the last step
    home_signals,                 \* history: body parts asked home since the flags were last served
    accepted,                     \* history: the updates accepted last since START/STOP-LISTENING
    util_q,                       \* selectRelevantJointsConfiguration: argument q
    util_joint_indices,           \* selectRelevantJointsConfiguration: argument joint_indices
    util_q_joints,                \* selectRelevantJointsConfiguration: result q_joints
    util_wholebody_msg            \* the message object a caller of the utilities keeps

flags == <<receive_pelvis_transform_, receive_joint_command_, receive_link_ids_,
           received_pelvis_transform_, received_joint_command_, received_link_ids_,
           publish_commands_, stop_node_>>
homing == <<home_left_arm_, home_right_arm_, home_chest_, home_pelvis_,
            publish_go_home_command_>>
stored == <<controlled_links_, tf_pelvis_wrt_world_, q_joint_>>
history == <<published, listening, last_op, pre, home_signals, accepted>>
utilities == <<util_q, util_joint_indices, util_q_joints, util_wholebody_msg>>
vars == <<commands_from_controllers_, flags, homing, status_, stored, pc, history,
          utilities>>

-----------------------------------------------------------------------------
(* Bounds of the model *)

\* the largest joint position the full joint state carries
MaxVal == 3

\* the slots of the small configuration vectors
SelSlots == 2

\* the largest value a small configuration vector holds
SelMaxVal == 2

\* the longest index list drawn
MaxIndices == 3

-----------------------------------------------------------------------------
(* The robot definition (valkyrie::, valkyrie_joint::, valkyrie_link::,    *)
(* val::joint_names_to_indices).  The layout is the one the specification  *)
(* gives: seven root-pose slots, then the named joints.                    *)

num_virtual == 7
virtual_X == 0
virtual_Y == 1
virtual_Z == 2
virtual_Rx == 3
virtual_Ry == 4
virtual_Rz == 5
virtual_Rw == 6

JointNames ==
    << "leftHipYaw", "leftHipRoll", "leftHipPitch",
       "leftKneePitch", "leftAnklePitch", "leftAnkleRoll",
       "rightHipYaw", "rightHipRoll", "rightHipPitch",
       "rightKneePitch", "rightAnklePitch", "rightAnkleRoll",
       "torsoYaw", "torsoPitch", "torsoRoll",
       "leftShoulderPitch", "leftShoulderRoll", "leftShoulderYaw",
       "leftElbowPitch", "leftForearmYaw",
       "lowerNeckPitch", "neckYaw", "upperNeckPitch",
       "rightShoulderPitch", "rightShoulderRoll", "rightShoulderYaw",
       "rightElbowPitch", "rightForearmYaw" >>

num_act_joint == Len(JointNames)
num_q == num_virtual + num_act_joint

\* val::joint_names_to_indices: joint name -> slot of the configuration vector
joint_names_to_indices ==
    [n \in {JointNames[k] : k \in 1..Len(JointNames)} |->
        num_virtual + (CHOOSE k \in 1..Len(JointNames) : JointNames[k] = n) - 1]

valkyrie_joint(n) == joint_names_to_indices[n]

link_pelvis == 0
link_torso == 1
link_rightCOP_Frame == 2
link_leftCOP_Frame == 3
link_rightPalm == 4
link_leftPalm == 5
link_head == 6

-----------------------------------------------------------------------------
(* Vectors *)

Vec(s) == [i \in 0..(Len(s) - 1) |-> s[i + 1]]
Size(v) == Cardinality(DOMAIN v)
Zero(n) == [i \in 0..(n - 1) |-> 0]
Elems(v) == {v[i] : i \in DOMAIN v}

-----------------------------------------------------------------------------
(* Inputs the transport delivers *)

\* geometry_msgs::TransformStamped: <<tx, ty, tz, rx, ry, rz, rw>>.  The
\* rotations are axis-aligned quaternions; the second message is the first
\* with its quaternion negated.
TransformMsgs ==
    { << 1, 2, 3, 0, 0, 0, 1 >>, << 1, 2, 3, 0, 0, 0, -1 >>, << 3, 2, 1, 0, 1, 0, 0 >> }

\* sensor_msgs::JointState: parallel arrays name[] and position[]
FullJointState ==
    [name |-> JointNames,
     position |-> [k \in 1..Len(JointNames) |-> (k % MaxVal) + 1]]
PartialJointState ==
    [name |-> << "leftShoulderPitch", "hokuyo_joint", "neckYaw", "leftShoulderPitch" >>,
     position |-> << 3, 3, 1, 2 >>]
UnknownJointState == [name |-> << "leftWristRoll" >>, position |-> << 1 >>]
EmptyJointState == [name |-> << >>, position |-> << >>]
JointStateMsgs ==
    { FullJointState, PartialJointState, UnknownJointState, EmptyJointState }

\* std_msgs::Int32MultiArray data
LinkIdMsgs ==
    { << link_head, link_leftPalm, link_rightPalm, link_torso, link_pelvis >>,
      << link_leftPalm, link_leftCOP_Frame, link_leftPalm, 99 >>,
      << >> }

\* std_msgs::String data
StatusMsgs ==
    { "STOP-LISTENING", "START-LISTENING", "HOME-LEFTARM", "HOME-RIGHTARM",
      "HOME-CHEST", "HOME-PELVIS", "start-listening" }

-----------------------------------------------------------------------------
(* tf::Transform.  setRotation stores the rotation matrix of the           *)
(* normalised quaternion and getRotation extracts a quaternion from that   *)
(* matrix again: q and -q are the same rotation, and for an axis-aligned   *)
(* rotation the quaternion extracted has its non-zero component positive.  *)

setRotation(quat) == [k \in 1..4 |-> IF quat[k] # 0 THEN 1 ELSE 0]
getRotation(basis) == basis
setOrigin(x, y, z) == <<x, y, z>>

\* the transform the node holds after storing tf_msg
StoredTransform(tf_msg) ==
    [origin |-> setOrigin(tf_msg[1], tf_msg[2], tf_msg[3]),
     basis |-> setRotation(<<tf_msg[4], tf_msg[5], tf_msg[6], tf_msg[7]>>)]

-----------------------------------------------------------------------------
(* ihmc_msg_utilities: command assembly *)

\* IHMCMessageParameters as default-constructed (override mode, points
\* reached after 1.0 s)
DefaultMessageParameters ==
    [controlled_links |-> << >>,
     execution_mode |-> 0,
     stream_integration_duration |-> 0,
     time |-> 100]

\* a sub-message of the whole-body message that assembly never writes
Unset == [populated |-> FALSE]

\* mutant: every link counts as controlled
checkControlledLink_Always(controlled_links, link_id) == TRUE

\* mutant: only the first controlled link is looked at
checkControlledLink_FirstOnly(controlled_links, link_id) ==
    0 \in DOMAIN controlled_links /\ controlled_links[0] = link_id

checkControlledLink(controlled_links, link_id) ==
    \E i \in DOMAIN controlled_links : controlled_links[i] = link_id

getRelevantJointIndicesPelvis ==
    Vec(<< virtual_X, virtual_Y, virtual_Z, virtual_Rx, virtual_Ry, virtual_Rz, virtual_Rw >>)

getRelevantJointIndicesTorso ==
    Vec(<< valkyrie_joint("torsoYaw"), valkyrie_joint("torsoPitch"),
           valkyrie_joint("torsoRoll") >>)

\* mutant: the left arm indices without the two wrist entries
getRelevantJointIndicesLeftArm_NoWrist ==
    Vec(<< valkyrie_joint("leftShoulderPitch"), valkyrie_joint("leftShoulderRoll"),
           valkyrie_joint("leftShoulderYaw"), valkyrie_joint("leftElbowPitch"),
           valkyrie_joint("leftForearmYaw") >>)

getRelevantJointIndicesLeftArm ==
    Vec(<< valkyrie_joint("leftShoulderPitch"), valkyrie_joint("leftShoulderRoll"),
           valkyrie_joint("leftShoulderYaw"), valkyrie_joint("leftElbowPitch"),
           valkyrie_joint("leftForearmYaw"), -1, -1 >>)

getRelevantJointIndicesNeck ==
    Vec(<< valkyrie_joint("lowerNeckPitch"), valkyrie_joint("neckYaw"),
           valkyrie_joint("upperNeckPitch") >>)

getRelevantJointIndicesRightArm ==
    Vec(<< valkyrie_joint("rightShoulderPitch"), valkyrie_joint("rightShoulderRoll"),
           valkyrie_joint("rightShoulderYaw"), valkyrie_joint("rightElbowPitch"),
           valkyrie_joint("rightForearmYaw"), -1, -1 >>)

\* mutant: the sentinel entries are left out of the result
selectRelevantJointsConfiguration_SkipsSentinel(q, joint_indices) ==
    LET kept == SelectSeq([k \in 1..Size(joint_indices) |-> joint_indices[k - 1]],
                          LAMBDA j : j # -1)
    IN [i \in 0..(Len(kept) - 1) |-> q[kept[i + 1]]]

selectRelevantJointsConfiguration(q, joint_indices) ==
    [i \in DOMAIN joint_indices |->
        IF joint_indices[i] = -1 THEN 0 ELSE q[joint_indices[i]]]

\* mutant: the quaternion is read in the order w, x, y, z
getPelvisPose_WFirst(q_joints) ==
    [pos |-> << q_joints[0], q_joints[1], q_joints[2] >>,
     quat |-> [x |-> q_joints[6], y |-> q_joints[3], z |-> q_joints[4], w |-> q_joints[5]]]

getPelvisPose(q_joints) ==
    [pos |-> << q_joints[0], q_joints[1], q_joints[2] >>,
     quat |-> [x |-> q_joints[3], y |-> q_joints[4], z |-> q_joints[5], w |-> q_joints[6]]]

\* The chest orientation comes from the kinematic model of the robot: it is
\* kept as the inputs forward kinematics reads for the torso link, the root
\* orientation and the three torso joints.
getChestOrientation(q) ==
    [root |-> << q[virtual_Rx], q[virtual_Ry], q[virtual_Rz], q[virtual_Rw] >>,
     torso |-> selectRelevantJointsConfiguration(q, getRelevantJointIndicesTorso)]

\* std::vector::clear and std::vector::push_back
clear(v) == Vec(<< >>)
push_back(v, e) == [i \in 0..Size(v) |-> IF i < Size(v) THEN v[i] ELSE e]

\* The controller_msgs messages as default-constructed: numbers zero and
\* vectors empty.  populated tells a part that assembly wrote from one that
\* it never touched.
QueueableMessage ==
    [execution_mode |-> 0,
     previous_message_id_set |-> FALSE,
     stream_integration_duration |-> 0]
OneDoFJointTrajectoryMessage == [trajectory_points |-> Vec(<< >>)]
JointspaceTrajectoryMessage ==
    [queueing_properties |-> QueueableMessage,
     joint_trajectory_messages |-> Vec(<< >>)]
ArmTrajectoryMessage ==
    [populated |-> FALSE,
     robot_side |-> 0,
     jointspace_trajectory |-> JointspaceTrajectoryMessage]
NeckTrajectoryMessage ==
    [populated |-> FALSE,
     jointspace_trajectory |-> JointspaceTrajectoryMessage]
SO3TrajectoryMessage ==
    [queueing_properties |-> QueueableMessage,
     taskspace_trajectory_points |-> Vec(<< >>)]
ChestTrajectoryMessage ==
    [populated |-> FALSE,
     so3_trajectory |-> SO3TrajectoryMessage]
SE3TrajectoryMessage ==
    [queueing_properties |-> QueueableMessage,
     taskspace_trajectory_points |-> Vec(<< >>)]
PelvisTrajectoryMessage ==
    [populated |-> FALSE,
     se3_trajectory |-> SE3TrajectoryMessage]
WholeBodyTrajectoryMessage ==
    [left_arm_trajectory_message |-> ArmTrajectoryMessage,
     right_arm_trajectory_message |-> ArmTrajectoryMessage,
     chest_trajectory_message |-> ChestTrajectoryMessage,
     spine_trajectory_message |-> Unset,
     pelvis_trajectory_message |-> PelvisTrajectoryMessage,
     left_foot_trajectory_message |-> Unset,
     right_foot_trajectory_message |-> Unset,
     neck_trajectory_message |-> NeckTrajectoryMessage]

\* The builders write into the message they are handed (q_msg, j_msg,
\* js_msg, ...) and yield it as they leave it.
makeIHMCQueueableMessage(q_msg, msg_params) ==
    [q_msg EXCEPT
        !.execution_mode = msg_params.execution_mode,
        !.previous_message_id_set = IF msg_params.execution_mode = 1 THEN TRUE ELSE @,
        !.stream_integration_duration =
            IF msg_params.execution_mode = 2
            THEN msg_params.stream_integration_duration ELSE @]

makeIHMCTrajectoryPoint1DMessage(q_joint, msg_params) ==
    [time |-> msg_params.time, position |-> q_joint, velocity |-> 0]

makeIHMCOneDoFJointTrajectoryMessage(q_joint, j_msg, msg_params) ==
    [j_msg EXCEPT
        !.trajectory_points =
            push_back(clear(@), makeIHMCTrajectoryPoint1DMessage(q_joint, msg_params))]

\* the loop of makeIHMCJointspaceTrajectoryMessage: one fresh
\* OneDoFJointTrajectoryMessage per joint, pushed back in the order of the
\* joints onto what the vector holds
JointTrajectoryMessages(joint_trajectory_messages, q_joints, msg_params) ==
    LET held == Size(joint_trajectory_messages) IN
    [i \in 0..(held + Size(q_joints) - 1) |->
        IF i < held THEN joint_trajectory_messages[i]
        ELSE makeIHMCOneDoFJointTrajectoryMessage(
                 q_joints[i - held], OneDoFJointTrajectoryMessage, msg_params)]

makeIHMCJointspaceTrajectoryMessage(q_joints, js_msg, msg_params) ==
    [js_msg EXCEPT
        !.queueing_properties = makeIHMCQueueableMessage(@, msg_params),
        !.joint_trajectory_messages =
            JointTrajectoryMessages(clear(@), q_joints, msg_params)]

makeIHMCArmTrajectoryMessage(q_joints, arm_msg, robot_side, msg_params) ==
    [arm_msg EXCEPT
        !.populated = TRUE,
        !.robot_side = robot_side,
        !.jointspace_trajectory =
            makeIHMCJointspaceTrajectoryMessage(q_joints, @, msg_params)]

makeIHMCNeckTrajectoryMessage(q_joints, neck_msg, msg_params) ==
    [neck_msg EXCEPT
        !.populated = TRUE,
        !.jointspace_trajectory =
            makeIHMCJointspaceTrajectoryMessage(q_joints, @, msg_params)]

makeIHMCSO3TrajectoryPointMessage(quat, msg_params) ==
    [time |-> msg_params.time, orientation |-> quat, angular_velocity |-> << 0, 0, 0 >>]

makeIHMCSO3TrajectoryMessage(quat, so3_msg, msg_params) ==
    [so3_msg EXCEPT
        !.queueing_properties = makeIHMCQueueableMessage(@, msg_params),
        !.taskspace_trajectory_points =
            push_back(clear(@), makeIHMCSO3TrajectoryPointMessage(quat, msg_params))]

makeIHMCChestTrajectoryMessage(quat, chest_msg, msg_params) ==
    [chest_msg EXCEPT
        !.populated = TRUE,
        !.so3_trajectory = makeIHMCSO3TrajectoryMessage(quat, @, msg_params)]

makeIHMCSE3TrajectoryPointMessage(pos, quat, msg_params) ==
    [time |-> msg_params.time, position |-> pos, orientation |-> quat,
     linear_velocity |-> << 0, 0, 0 >>, angular_velocity |-> << 0, 0, 0 >>]

makeIHMCSE3TrajectoryMessage(pos, quat, se3_msg, msg_params) ==
    [se3_msg EXCEPT
        !.queueing_properties = makeIHMCQueueableMessage(@, msg_params),
        !.taskspace_trajectory_points =
            push_back(clear(@), makeIHMCSE3TrajectoryPointMessage(pos, quat, msg_params))]

makeIHMCPelvisTrajectoryMessage(q_joints, pelvis_msg, msg_params) ==
    LET pose == getPelvisPose(q_joints) IN
    [pelvis_msg EXCEPT
        !.populated = TRUE,
        !.se3_trajectory =
            makeIHMCSE3TrajectoryMessage(pose.pos, pose.quat, @, msg_params)]

\* a part whose link is not controlled is left as wholebody_msg holds it
makeIHMCWholeBodyTrajectoryMessage(q, wholebody_msg, msg_params) ==
    LET links == msg_params.controlled_links
        control_pelvis == checkControlledLink(links, link_pelvis)
        control_chest == checkControlledLink(links, link_torso)
        control_rarm == checkControlledLink(links, link_rightPalm)
        control_larm == checkControlledLink(links, link_leftPalm)
        control_neck == checkControlledLink(links, link_head)
    IN
    [wholebody_msg EXCEPT
        !.left_arm_trajectory_message =
            IF control_larm
            THEN makeIHMCArmTrajectoryMessage(
                     selectRelevantJointsConfiguration(q, getRelevantJointIndicesLeftArm),
                     @, 0, msg_params)
            ELSE @,
        !.right_arm_trajectory_message =
            IF control_rarm
            THEN makeIHMCArmTrajectoryMessage(
                     selectRelevantJointsConfiguration(q, getRelevantJointIndicesRightArm),
                     @, 1, msg_params)
            ELSE @,
        !.chest_trajectory_message =
            IF control_chest
            THEN makeIHMCChestTrajectoryMessage(getChestOrientation(q), @, msg_params)
            ELSE @,
        !.pelvis_trajectory_message =
            IF control_pelvis
            THEN makeIHMCPelvisTrajectoryMessage(
                     selectRelevantJointsConfiguration(q, getRelevantJointIndicesPelvis),
                     @, msg_params)
            ELSE @,
        !.neck_trajectory_message =
            IF control_neck
            THEN makeIHMCNeckTrajectoryMessage(
                     selectRelevantJointsConfiguration(q, getRelevantJointIndicesNeck),
                     @, msg_params)
            ELSE @]

\* controller_msgs::GoHomeMessage as default-constructed: body part 0 (arm)
\* and side 0 (left). Each builder below also copies
\* msg_params.go_home_params.trajectory_time into the message; that field is
\* not tracked.
GoHomeMessage ==
    [humanoid_body_part |-> "ARM", robot_side |-> "LEFT"]

makeIHMCHomeLeftArmMessage(go_home_msg, msg_params) ==
    [go_home_msg EXCEPT
        !.humanoid_body_part = "ARM",
        !.robot_side = "LEFT"]

\* mutant: the right arm message is left without its side
makeIHMCHomeRightArmMessage_NoSide(go_home_msg, msg_params) ==
    [go_home_msg EXCEPT !.humanoid_body_part = "ARM"]

makeIHMCHomeRightArmMessage(go_home_msg, msg_params) ==
    [go_home_msg EXCEPT
        !.humanoid_body_part = "ARM",
        !.robot_side = "RIGHT"]

\* the chest and pelvis builders write no side: the message keeps the one it
\* holds
makeIHMCHomeChestMessage(go_home_msg, msg_params) ==
    [go_home_msg EXCEPT !.humanoid_body_part = "CHEST"]

makeIHMCHomePelvisMessage(go_home_msg, msg_params) ==
    [go_home_msg EXCEPT !.humanoid_body_part = "PELVIS"]

-----------------------------------------------------------------------------
(* IHMCInterfaceNode: derived flags and helpers *)

\* mutant: the link ids are not waited for
updatePublishCommandsFlag_NoLinks(received_pelvis, received_links, received_joints) ==
    received_pelvis /\ received_joints

updatePublishCommandsFlag(received_pelvis, received_links, received_joints) ==
    received_pelvis /\ received_links /\ received_joints

\* mutant: the stop flag is set as soon as either input is no longer accepted
updateStopNodeFlag_Either(receive_pelvis, receive_joints) ==
    ~receive_pelvis \/ ~receive_joints

updateStopNodeFlag(receive_pelvis, receive_joints) ==
    ~receive_pelvis /\ ~receive_joints

\* mutant: the pelvis request is left out of the flag
updatePublishGoHomeCommandFlag_NoPelvis(left_arm, right_arm, chest, pelvis) ==
    left_arm \/ right_arm \/ chest

updatePublishGoHomeCommandFlag(left_arm, right_arm, chest, pelvis) ==
    left_arm \/ right_arm \/ chest \/ pelvis

\* mutant: every callback is subscribed in both modes
Subscribed_All(callback, from_controllers) == TRUE

\* mutant: the status topic is subscribed in both modes
Subscribed_StatusAlways(callback, from_controllers) ==
    CASE callback = "transformCallback" -> TRUE
      [] callback = "jointCommandCallback" -> TRUE
      [] callback = "controlledLinkIdsCallback" -> from_controllers
      [] callback = "statusCallback" -> TRUE

\* initializeConnections: the callbacks the node subscribes
Subscribed(callback, from_controllers) ==
    CASE callback = "transformCallback" -> TRUE
      [] callback = "jointCommandCallback" -> TRUE
      [] callback = "controlledLinkIdsCallback" -> from_controllers
      [] callback = "statusCallback" -> from_controllers

\* the links the constructor assumes when no link ids will arrive
DefaultControlledLinks ==
    Vec(<< link_pelvis, link_torso, link_rightCOP_Frame, link_leftCOP_Frame,
           link_rightPalm, link_leftPalm, link_head >>)

\* mutant: the loop of jointCommandCallback run from the last pair to the
\* first, so the first of two pairs with the same name wins
RECURSIVE SetJointPositions_Reverse(_, _, _)
SetJointPositions_Reverse(q_joint, js_msg, i) ==
    IF i > Len(js_msg.position) THEN q_joint
    ELSE LET k == Len(js_msg.position) - i + 1
             name == js_msg.name[k]
         IN SetJointPositions_Reverse(
                IF name \in DOMAIN joint_names_to_indices
                THEN [q_joint EXCEPT ![joint_names_to_indices[name] - num_virtual] =
                                         js_msg.position[k]]
                ELSE q_joint,
                js_msg, i + 1)

\* mutant: a name that is not a joint of the robot writes the first slot
RECURSIVE SetJointPositions_UnknownWrites(_, _, _)
SetJointPositions_UnknownWrites(q_joint, js_msg, i) ==
    IF i > Len(js_msg.position) THEN q_joint
    ELSE LET name == js_msg.name[i]
             jidx == IF name \in DOMAIN joint_names_to_indices
                     THEN joint_names_to_indices[name] - num_virtual
                     ELSE 0
         IN SetJointPositions_UnknownWrites(
                [q_joint EXCEPT ![jidx] = js_msg.position[i]], js_msg, i + 1)

\* the loop of jointCommandCallback from position i (1-based) on: a known
\* name writes its slot, an unknown name writes nothing
RECURSIVE SetJointPositions(_, _, _)
SetJointPositions(q_joint, js_msg, i) ==
    IF i > Len(js_msg.position) THEN q_joint
    ELSE LET name == js_msg.name[i] IN
         SetJointPositions(
             IF name \in DOMAIN joint_names_to_indices
             THEN [q_joint EXCEPT ![joint_names_to_indices[name] - num_virtual] =
                                      js_msg.position[i]]
             ELSE q_joint,
             js_msg, i + 1)

\* mutant: the joint vector is not zeroed, the update patches it
JointCommand_Patch(js_msg) ==
    SetJointPositions(IF Size(q_joint_) = num_act_joint THEN q_joint_
                      ELSE Zero(num_act_joint),
                      js_msg, 1)

\* q_joint_ after an accepted joint state: resized, zeroed, then written
JointCommand(js_msg) == SetJointPositions(Zero(num_act_joint), js_msg, 1)

\* q_ as prepareConfigurationVector leaves it.  q_ is resized and zeroed at
\* every call, so it carries nothing from one publish to the next.
prepareConfigurationVector(tf_pelvis, q_joint) ==
    LET origin == tf_pelvis.origin
        rot == getRotation(tf_pelvis.basis)
    IN [j \in 0..(num_q - 1) |->
           IF j - num_virtual \in DOMAIN q_joint THEN q_joint[j - num_virtual]
           ELSE CASE j = virtual_X -> origin[1]
                  [] j = virtual_Y -> origin[2]
                  [] j = virtual_Z -> origin[3]
                  [] j = virtual_Rx -> rot[1]
                  [] j = virtual_Ry -> rot[2]
                  [] j = virtual_Rz -> rot[3]
                  [] j = virtual_Rw -> rot[4]
                  [] OTHER -> 0]

\* mutant: the time of the trajectory points is left at its default
WholeBodyMessageParameters_DefaultTime(from_controllers, controlled_links) ==
    IF from_controllers
    THEN [DefaultMessageParameters EXCEPT
              !.controlled_links = controlled_links,
              !.execution_mode = 2,
              !.stream_integration_duration = 13]
    ELSE [DefaultMessageParameters EXCEPT !.controlled_links = controlled_links]

\* mutant: the streaming parameters are set in both modes
WholeBodyMessageParameters_AlwaysStream(from_controllers, controlled_links) ==
    [DefaultMessageParameters EXCEPT
         !.controlled_links = controlled_links,
         !.execution_mode = 2,
         !.stream_integration_duration = 13,
         !.time = 0]

\* the message parameters publishWholeBodyMessage sets up
WholeBodyMessageParameters(from_controllers, controlled_links) ==
    IF from_controllers
    THEN [DefaultMessageParameters EXCEPT
              !.controlled_links = controlled_links,
              !.execution_mode = 2,
              !.stream_integration_duration = 13,
              !.time = 0]
    ELSE [DefaultMessageParameters EXCEPT !.controlled_links = controlled_links]

\* what publishWholeBodyMessage hands to wholebody_pub_
publishWholeBodyMessage(from_controllers, controlled_links, tf_pelvis, q_joint) ==
    << [topic |-> "whole_body_trajectory",
        msg |-> makeIHMCWholeBodyTrajectoryMessage(
                    prepareConfigurationVector(tf_pelvis, q_joint),
                    WholeBodyTrajectoryMessage,
                    WholeBodyMessageParameters(from_controllers, controlled_links))] >>

\* mutant: the pelvis message is sent first
publishGoHomeMessage_PelvisFirst(left_arm, right_arm, chest, pelvis) ==
    LET msg_params == DefaultMessageParameters
        Sent(go_home_msg) == << [topic |-> "go_home", msg |-> go_home_msg] >>
    IN  (IF pelvis
         THEN Sent(makeIHMCHomePelvisMessage(GoHomeMessage, msg_params))
         ELSE << >>)
        \o (IF left_arm
            THEN Sent(makeIHMCHomeLeftArmMessage(GoHomeMessage, msg_params))
            ELSE << >>)
        \o (IF right_arm
            THEN Sent(makeIHMCHomeRightArmMessage(GoHomeMessage, msg_params))
            ELSE << >>)
        \o (IF chest
            THEN Sent(makeIHMCHomeChestMessage(GoHomeMessage, msg_params))
            ELSE << >>)

\* what publishGoHomeMessage hands to go_home_pub_, in the order it does: each
\* block builds its command on a message of its own
publishGoHomeMessage(left_arm, right_arm, chest, pelvis) ==
    LET msg_params == DefaultMessageParameters
        Sent(go_home_msg) == << [topic |-> "go_home", msg |-> go_home_msg] >>
    IN  (IF left_arm
         THEN Sent(makeIHMCHomeLeftArmMessage(GoHomeMessage, msg_params))
         ELSE << >>)
        \o (IF right_arm
            THEN Sent(makeIHMCHomeRightArmMessage(GoHomeMessage, msg_params))
            ELSE << >>)
        \o (IF chest
            THEN Sent(makeIHMCHomeChestMessage(GoHomeMessage, msg_params))
            ELSE << >>)
        \o (IF pelvis
            THEN Sent(makeIHMCHomePelvisMessage(GoHomeMessage, msg_params))
            ELSE << >>)

\* mutant: the one-shot condition is applied in both modes
MainPublishesWholeBody_OneShotGuard(from_controllers, publish_commands, stop_node) ==
    publish_commands /\ stop_node

\* main: the condition under which one loop iteration publishes a
\* whole-body message
MainPublishesWholeBody(from_controllers, publish_commands, stop_node) ==
    IF from_controllers THEN publish_commands
    ELSE publish_commands /\ stop_node

\* mutant: the break is missing
MainBreaks_Never(from_controllers, whole_body) == FALSE

\* main: the loop is left right after the single whole-body message of
\* one-shot operation
MainBreaks(from_controllers, whole_body) ==
    ~from_controllers /\ whole_body

\* main: the condition under which one loop iteration publishes go-home
\* messages
MainPublishesGoHome(from_controllers, publish_go_home_command) ==
    from_controllers /\ publish_go_home_command

-----------------------------------------------------------------------------
(* History kept for the properties *)

Snapshot ==
    [receive_pelvis_transform |-> receive_pelvis_transform_,
     receive_joint_command |-> receive_joint_command_,
     receive_link_ids |-> receive_link_ids_,
     received_pelvis_transform |-> received_pelvis_transform_,
     received_joint_command |-> received_joint_command_,
     received_link_ids |-> received_link_ids_,
     publish_commands |-> publish_commands_,
     stop_node |-> stop_node_,
     q_joint |-> q_joint_,
     controlled_links |-> controlled_links_]

\* the body part a status string asks to send home, "" when none
HomeSignalPart(data) ==
    CASE data = "HOME-LEFTARM" -> "left_arm"
      [] data = "HOME-RIGHTARM" -> "right_arm"
      [] data = "HOME-CHEST" -> "chest"
      [] data = "HOME-PELVIS" -> "pelvis"
      [] OTHER -> ""

\* no update accepted yet: each of pose, joints, links is << >>, or << m >>
\* once the message m was accepted
NoneAccepted == [pose |-> << >>, joints |-> << >>, links |-> << >>]

\* the accepted updates after the callback op has run on arg: a callback
\* accepts its message when its accepting flag is set, and the two listening
\* signals start afresh
AcceptedAfter(op, arg) ==
    CASE op = "transformCallback" /\ receive_pelvis_transform_ ->
             [accepted EXCEPT !.pose = << arg >>]
      [] op = "jointCommandCallback" /\ receive_joint_command_ ->
             [accepted EXCEPT !.joints = << arg >>]
      [] op = "controlledLinkIdsCallback" /\ receive_link_ids_ ->
             [accepted EXCEPT !.links = << arg >>]
      [] op = "statusCallback" /\ arg \in {"START-LISTENING", "STOP-LISTENING"} ->
             NoneAccepted
      [] OTHER -> accepted

\* a step that hands nothing to the transport
HandlerHistory(op, arg) ==
    /\ published' = << >>
    /\ last_op' = [op |-> op, arg |-> arg]
    /\ pre' = Snapshot
    /\ home_signals' =
           IF op = "statusCallback" /\ HomeSignalPart(arg) # ""
           THEN home_signals \cup {HomeSignalPart(arg)}
           ELSE home_signals
    /\ accepted' = AcceptedAfter(op, arg)

-----------------------------------------------------------------------------
(* Construction *)

\* the node as its constructor leaves it
IHMCInterfaceNode ==
    /\ commands_from_controllers_ \in BOOLEAN
    /\ receive_pelvis_transform_ = ~commands_from_controllers_
    /\ receive_joint_command_ = ~commands_from_controllers_
    /\ receive_link_ids_ = FALSE
    /\ received_link_ids_ = ~commands_from_controllers_
    /\ controlled_links_ =
           IF commands_from_controllers_ THEN Vec(<< >>) ELSE DefaultControlledLinks
    /\ received_pelvis_transform_ = FALSE
    /\ received_joint_command_ = FALSE
    /\ publish_commands_ = FALSE
    /\ stop_node_ = FALSE
    /\ home_left_arm_ = FALSE
    /\ home_right_arm_ = FALSE
    /\ home_chest_ = FALSE
    /\ home_pelvis_ = FALSE
    /\ publish_go_home_command_ = FALSE
    /\ status_ = ""
    \* the constructor does not initialise the transform
    /\ tf_pelvis_wrt_world_ \in {StoredTransform(m) : m \in TransformMsgs}
    /\ q_joint_ = Zero(0)
    /\ pc = "check"
    /\ published = << >>
    /\ listening = "never"
    /\ last_op = [op |-> "constructor", arg |-> << >>]
    /\ pre = Snapshot
    /\ home_signals = {}
    /\ accepted = NoneAccepted

\* no utility has been called from outside the node
NoUtilityCall ==
    /\ util_q = Zero(0)
    /\ util_joint_indices = Vec(<< >>)
    /\ util_q_joints = Zero(0)
    /\ util_wholebody_msg = WholeBodyTrajectoryMessage

Init == IHMCInterfaceNode /\ NoUtilityCall

-----------------------------------------------------------------------------
(* Callbacks *)

\* mutant: the node goes on accepting poses in one-shot mode
transformCallback_KeepsAccepting(tf_msg) ==
    LET accept == receive_pelvis_transform_ IN
    /\ tf_pelvis_wrt_world_' =
           IF accept THEN StoredTransform(tf_msg) ELSE tf_pelvis_wrt_world_
    /\ received_pelvis_transform_' = (accept \/ received_pelvis_transform_)
    /\ receive_pelvis_transform_' = receive_pelvis_transform_
    /\ publish_commands_' =
           updatePublishCommandsFlag(received_pelvis_transform_', received_link_ids_,
                                     received_joint_command_)
    /\ stop_node_' =
           updateStopNodeFlag(receive_pelvis_transform_', receive_joint_command_)
    /\ UNCHANGED << utilities, commands_from_controllers_, receive_joint_command_, receive_link_ids_,
                    received_joint_command_, received_link_ids_, homing, status_,
                    controlled_links_, q_joint_, pc, listening >>
    /\ HandlerHistory("transformCallback", tf_msg)

transformCallback(tf_msg) ==
    LET accept == receive_pelvis_transform_ IN
    /\ tf_pelvis_wrt_world_' =
           IF accept THEN StoredTransform(tf_msg) ELSE tf_pelvis_wrt_world_
    /\ received_pelvis_transform_' = (accept \/ received_pelvis_transform_)
    /\ receive_pelvis_transform_' =
           IF accept /\ ~commands_from_controllers_ THEN FALSE
           ELSE receive_pelvis_transform_
    /\ publish_commands_' =
           updatePublishCommandsFlag(received_pelvis_transform_', received_link_ids_,
                                     received_joint_command_)
    /\ stop_node_' =
           updateStopNodeFlag(receive_pelvis_transform_', receive_joint_command_)
    /\ UNCHANGED << utilities, commands_from_controllers_, receive_joint_command_, receive_link_ids_,
                    received_joint_command_, received_link_ids_, homing, status_,
                    controlled_links_, q_joint_, pc, listening >>
    /\ HandlerHistory("transformCallback", tf_msg)

\* mutant: the link ids are stored whether the node is accepting them or not
controlledLinkIdsCallback_AlwaysStores(arr_msg) ==
    /\ controlled_links_' = Vec(arr_msg)
    /\ received_link_ids_' = (receive_link_ids_ \/ received_link_ids_)
    /\ receive_link_ids_' =
           IF receive_link_ids_ /\ ~commands_from_controllers_ THEN FALSE
           ELSE receive_link_ids_
    /\ publish_commands_' =
           updatePublishCommandsFlag(received_pelvis_transform_, received_link_ids_',
                                     received_joint_command_)
    /\ stop_node_' = updateStopNodeFlag(receive_pelvis_transform_, receive_joint_command_)
    /\ UNCHANGED << utilities, commands_from_controllers_, receive_pelvis_transform_,
                    receive_joint_command_, received_pelvis_transform_,
                    received_joint_command_, homing, status_, tf_pelvis_wrt_world_,
                    q_joint_, pc, listening >>
    /\ HandlerHistory("controlledLinkIdsCallback", arr_msg)

\* mutant: the vector of controlled links is not cleared, the ids of the
\* message are appended to it
controlledLinkIdsCallback_Appends(arr_msg) ==
    LET accept == receive_link_ids_ IN
    /\ controlled_links_' =
           IF accept
           THEN Vec([k \in 1..Size(controlled_links_) |-> controlled_links_[k - 1]]
                    \o arr_msg)
           ELSE controlled_links_
    /\ received_link_ids_' = (accept \/ received_link_ids_)
    /\ receive_link_ids_' =
           IF accept /\ ~commands_from_controllers_ THEN FALSE ELSE receive_link_ids_
    /\ publish_commands_' =
           updatePublishCommandsFlag(received_pelvis_transform_, received_link_ids_',
                                     received_joint_command_)
    /\ stop_node_' = updateStopNodeFlag(receive_pelvis_transform_, receive_joint_command_)
    /\ UNCHANGED << utilities, commands_from_controllers_, receive_pelvis_transform_,
                    receive_joint_command_, received_pelvis_transform_,
                    received_joint_command_, homing, status_, tf_pelvis_wrt_world_,
                    q_joint_, pc, listening >>
    /\ HandlerHistory("controlledLinkIdsCallback", arr_msg)

controlledLinkIdsCallback(arr_msg) ==
    LET accept == receive_link_ids_ IN
    /\ controlled_links_' = IF accept THEN Vec(arr_msg) ELSE controlled_links_
    /\ received_link_ids_' = (accept \/ received_link_ids_)
    /\ receive_link_ids_' =
           IF accept /\ ~commands_from_controllers_ THEN FALSE ELSE receive_link_ids_
    /\ publish_commands_' =
           updatePublishCommandsFlag(received_pelvis_transform_, received_link_ids_',
                                     received_joint_command_)
    /\ stop_node_' = updateStopNodeFlag(receive_pelvis_transform_, receive_joint_command_)
    /\ UNCHANGED << utilities, commands_from_controllers_, receive_pelvis_transform_,
                    receive_joint_command_, received_pelvis_transform_,
                    received_joint_command_, homing, status_, tf_pelvis_wrt_world_,
                    q_joint_, pc, listening >>
    /\ HandlerHistory("controlledLinkIdsCallback", arr_msg)

\* mutant: the node goes on accepting joint updates in one-shot mode
jointCommandCallback_KeepsAccepting(js_msg) ==
    LET accept == receive_joint_command_ IN
    /\ q_joint_' = IF accept THEN JointCommand(js_msg) ELSE q_joint_
    /\ received_joint_command_' = (accept \/ received_joint_command_)
    /\ receive_joint_command_' = receive_joint_command_
    /\ publish_commands_' =
           updatePublishCommandsFlag(received_pelvis_transform_, received_link_ids_,
                                     received_joint_command_')
    /\ stop_node_' =
           updateStopNodeFlag(receive_pelvis_transform_, receive_joint_command_')
    /\ UNCHANGED << utilities, commands_from_controllers_, receive_pelvis_transform_,
                    receive_link_ids_, received_pelvis_transform_, received_link_ids_,
                    homing, status_, controlled_links_, tf_pelvis_wrt_world_, pc,
                    listening >>
    /\ HandlerHistory("jointCommandCallback", js_msg)

jointCommandCallback(js_msg) ==
    LET accept == receive_joint_command_ IN
    /\ q_joint_' = IF accept THEN JointCommand(js_msg) ELSE q_joint_
    /\ received_joint_command_' = (accept \/ received_joint_command_)
    /\ receive_joint_command_' =
           IF accept /\ ~commands_from_controllers_ THEN FALSE
           ELSE receive_joint_command_
    /\ publish_commands_' =
           updatePublishCommandsFlag(received_pelvis_transform_, received_link_ids_,
                                     received_joint_command_')
    /\ stop_node_' =
           updateStopNodeFlag(receive_pelvis_transform_, receive_joint_command_')
    /\ UNCHANGED << utilities, commands_from_controllers_, receive_pelvis_transform_,
                    receive_link_ids_, received_pelvis_transform_, received_link_ids_,
                    homing, status_, controlled_links_, tf_pelvis_wrt_world_, pc,
                    listening >>
    /\ HandlerHistory("jointCommandCallback", js_msg)

\* mutant: STOP-LISTENING leaves the pose marked as received
statusListening_KeepsPose(data, receive) ==
    /\ status_' = data
    /\ receive_pelvis_transform_' = receive
    /\ received_pelvis_transform_' = (~receive /\ received_pelvis_transform_)
    /\ receive_link_ids_' = receive
    /\ received_link_ids_' = FALSE
    /\ receive_joint_command_' = receive
    /\ received_joint_command_' = FALSE
    /\ publish_commands_' =
           updatePublishCommandsFlag(received_pelvis_transform_', received_link_ids_',
                                     received_joint_command_')
    /\ stop_node_' =
           updateStopNodeFlag(receive_pelvis_transform_', receive_joint_command_')
    /\ listening' = IF receive THEN "on" ELSE "off"
    /\ UNCHANGED homing

\* mutant: START-LISTENING does not clear the received flags
statusListening_StartKeepsReceived(data, receive) ==
    /\ status_' = data
    /\ receive_pelvis_transform_' = receive
    /\ received_pelvis_transform_' = (receive /\ received_pelvis_transform_)
    /\ receive_link_ids_' = receive
    /\ received_link_ids_' = (receive /\ received_link_ids_)
    /\ receive_joint_command_' = receive
    /\ received_joint_command_' = (receive /\ received_joint_command_)
    /\ publish_commands_' =
           updatePublishCommandsFlag(received_pelvis_transform_', received_link_ids_',
                                     received_joint_command_')
    /\ stop_node_' =
           updateStopNodeFlag(receive_pelvis_transform_', receive_joint_command_')
    /\ listening' = IF receive THEN "on" ELSE "off"
    /\ UNCHANGED homing

\* mutant: STOP-LISTENING clears neither the received flags nor the
\* publish flag
statusListening_StopKeepsReceived(data, receive) ==
    /\ status_' = data
    /\ receive_pelvis_transform_' = receive
    /\ received_pelvis_transform_' = (~receive /\ received_pelvis_transform_)
    /\ receive_link_ids_' = receive
    /\ received_link_ids_' = (~receive /\ received_link_ids_)
    /\ receive_joint_command_' = receive
    /\ received_joint_command_' = (~receive /\ received_joint_command_)
    /\ publish_commands_' =
           updatePublishCommandsFlag(received_pelvis_transform_', received_link_ids_',
                                     received_joint_command_')
    /\ stop_node_' =
           updateStopNodeFlag(receive_pelvis_transform_', receive_joint_command_')
    /\ listening' = IF receive THEN "on" ELSE "off"
    /\ UNCHANGED homing

\* mutant: the listening signals leave the links marked as received
statusListening_KeepsLinks(data, receive) ==
    /\ status_' = data
    /\ receive_pelvis_transform_' = receive
    /\ received_pelvis_transform_' = FALSE
    /\ receive_link_ids_' = receive
    /\ received_link_ids_' = received_link_ids_
    /\ receive_joint_command_' = receive
    /\ received_joint_command_' = FALSE
    /\ publish_commands_' =
           updatePublishCommandsFlag(received_pelvis_transform_', received_link_ids_',
                                     received_joint_command_')
    /\ stop_node_' =
           updateStopNodeFlag(receive_pelvis_transform_', receive_joint_command_')
    /\ listening' = IF receive THEN "on" ELSE "off"
    /\ UNCHANGED homing

\* mutant: the listening signals do not switch the accepting of links
statusListening_LinksNotSwitched(data, receive) ==
    /\ status_' = data
    /\ receive_pelvis_transform_' = receive
    /\ received_pelvis_transform_' = FALSE
    /\ receive_link_ids_' = receive_link_ids_
    /\ received_link_ids_' = FALSE
    /\ receive_joint_command_' = receive
    /\ received_joint_command_' = FALSE
    /\ publish_commands_' =
           updatePublishCommandsFlag(received_pelvis_transform_', received_link_ids_',
                                     received_joint_command_')
    /\ stop_node_' =
           updateStopNodeFlag(receive_pelvis_transform_', receive_joint_command_')
    /\ listening' = IF receive THEN "on" ELSE "off"
    /\ UNCHANGED homing

\* mutant: STOP-LISTENING also drops the pending home requests
statusListening_DropsHomeRequests(data, receive) ==
    /\ status_' = data
    /\ receive_pelvis_transform_' = receive
    /\ received_pelvis_transform_' = FALSE
    /\ receive_link_ids_' = receive
    /\ received_link_ids_' = FALSE
    /\ receive_joint_command_' = receive
    /\ received_joint_command_' = FALSE
    /\ publish_commands_' =
           updatePublishCommandsFlag(received_pelvis_transform_', received_link_ids_',
                                     received_joint_command_')
    /\ stop_node_' =
           updateStopNodeFlag(receive_pelvis_transform_', receive_joint_command_')
    /\ listening' = IF receive THEN "on" ELSE "off"
    /\ IF receive
       THEN UNCHANGED homing
       ELSE /\ home_left_arm_' = FALSE
            /\ home_right_arm_' = FALSE
            /\ home_chest_' = FALSE
            /\ home_pelvis_' = FALSE
            /\ publish_go_home_command_' = FALSE

\* the STOP-LISTENING and START-LISTENING branches: receive is what the
\* three accepting flags become
statusListening(data, receive) ==
    /\ status_' = data
    /\ receive_pelvis_transform_' = receive
    /\ received_pelvis_transform_' = FALSE
    /\ receive_link_ids_' = receive
    /\ received_link_ids_' = FALSE
    /\ receive_joint_command_' = receive
    /\ received_joint_command_' = FALSE
    /\ publish_commands_' =
           updatePublishCommandsFlag(received_pelvis_transform_', received_link_ids_',
                                     received_joint_command_')
    /\ stop_node_' =
           updateStopNodeFlag(receive_pelvis_transform_', receive_joint_command_')
    /\ listening' = IF receive THEN "on" ELSE "off"
    /\ UNCHANGED homing

\* the four HOME- branches: the flags after the branch has set its own
statusHome(data, left_arm, right_arm, chest, pelvis) ==
    /\ status_' = data
    /\ home_left_arm_' = left_arm
    /\ home_right_arm_' = right_arm
    /\ home_chest_' = chest
    /\ home_pelvis_' = pelvis
    /\ publish_go_home_command_' =
           updatePublishGoHomeCommandFlag(home_left_arm_', home_right_arm_',
                                          home_chest_', home_pelvis_')
    /\ UNCHANGED << flags, listening >>

\* mutant: the status strings are compared without regard to case
statusCallback_IgnoresCase(data) ==
    /\ CASE data = "STOP-LISTENING" -> statusListening(data, FALSE)
         [] data \in {"START-LISTENING", "start-listening"} ->
                statusListening(data, TRUE)
         [] data = "HOME-LEFTARM" ->
                statusHome(data, TRUE, home_right_arm_, home_chest_, home_pelvis_)
         [] data = "HOME-RIGHTARM" ->
                statusHome(data, home_left_arm_, TRUE, home_chest_, home_pelvis_)
         [] data = "HOME-CHEST" ->
                statusHome(data, home_left_arm_, home_right_arm_, TRUE, home_pelvis_)
         [] data = "HOME-PELVIS" ->
                statusHome(data, home_left_arm_, home_right_arm_, home_chest_, TRUE)
         [] OTHER -> UNCHANGED << flags, homing, status_, listening >>
    /\ UNCHANGED << utilities, commands_from_controllers_, stored, pc >>
    /\ HandlerHistory("statusCallback", data)

statusCallback(data) ==
    /\ CASE data = "STOP-LISTENING" -> statusListening(data, FALSE)
         [] data = "START-LISTENING" -> statusListening(data, TRUE)
         [] data = "HOME-LEFTARM" ->
                statusHome(data, TRUE, home_right_arm_, home_chest_, home_pelvis_)
         [] data = "HOME-RIGHTARM" ->
                statusHome(data, home_left_arm_, TRUE, home_chest_, home_pelvis_)
         [] data = "HOME-CHEST" ->
                statusHome(data, home_left_arm_, home_right_arm_, TRUE, home_pelvis_)
         [] data = "HOME-PELVIS" ->
                statusHome(data, home_left_arm_, home_right_arm_, home_chest_, TRUE)
         [] OTHER -> UNCHANGED << flags, homing, status_, listening >>
    /\ UNCHANGED << utilities, commands_from_controllers_, stored, pc >>
    /\ HandlerHistory("statusCallback", data)

-----------------------------------------------------------------------------
(* main: one iteration of the loop is the check of the flags with what it  *)
(* publishes, then ros::spinOnce(), which runs the callbacks of the        *)
(* messages that have arrived.                                             *)

\* mutant: publishGoHomeMessage does not reset the flags
GoHomePublished_KeepsFlags ==
    UNCHANGED homing

\* the flags publishGoHomeMessage leaves
GoHomePublished ==
    /\ home_left_arm_' = FALSE
    /\ home_right_arm_' = FALSE
    /\ home_chest_' = FALSE
    /\ home_pelvis_' = FALSE
    /\ publish_go_home_command_' =
           updatePublishGoHomeCommandFlag(home_left_arm_', home_right_arm_',
                                          home_chest_', home_pelvis_')

\* mutant: a published whole-body message uses up the received inputs
DriverCheck_ConsumesInputs ==
    LET whole_body == MainPublishesWholeBody(commands_from_controllers_,
                                             publish_commands_, stop_node_)
        go_home == MainPublishesGoHome(commands_from_controllers_,
                                       publish_go_home_command_)
    IN
    /\ pc = "check"
    /\ published' =
           (IF whole_body
            THEN publishWholeBodyMessage(commands_from_controllers_, controlled_links_,
                                         tf_pelvis_wrt_world_, q_joint_)
            ELSE << >>)
           \o (IF go_home
               THEN publishGoHomeMessage(home_left_arm_, home_right_arm_,
                                         home_chest_, home_pelvis_)
               ELSE << >>)
    /\ IF go_home THEN GoHomePublished ELSE UNCHANGED homing
    /\ pc' = IF MainBreaks(commands_from_controllers_, whole_body) THEN "done" ELSE "spin"
    /\ last_op' = [op |-> "main", arg |-> << >>]
    /\ pre' = Snapshot
    /\ home_signals' = {}
    /\ UNCHANGED accepted
    /\ received_pelvis_transform_' = (received_pelvis_transform_ /\ ~whole_body)
    /\ received_joint_command_' = (received_joint_command_ /\ ~whole_body)
    /\ received_link_ids_' = (received_link_ids_ /\ ~whole_body)
    /\ publish_commands_' = (publish_commands_ /\ ~whole_body)
    /\ UNCHANGED << receive_pelvis_transform_, receive_joint_command_,
                    receive_link_ids_, stop_node_ >>
    /\ UNCHANGED << utilities, commands_from_controllers_, status_, stored, listening >>

\* mutant: the go-home messages are handed over before the whole-body message
DriverCheck_HomeFirst ==
    LET whole_body == MainPublishesWholeBody(commands_from_controllers_,
                                             publish_commands_, stop_node_)
        go_home == MainPublishesGoHome(commands_from_controllers_,
                                       publish_go_home_command_)
    IN
    /\ pc = "check"
    /\ published' =
           (IF go_home
            THEN publishGoHomeMessage(home_left_arm_, home_right_arm_,
                                      home_chest_, home_pelvis_)
            ELSE << >>)
           \o (IF whole_body
               THEN publishWholeBodyMessage(commands_from_controllers_, controlled_links_,
                                            tf_pelvis_wrt_world_, q_joint_)
               ELSE << >>)
    /\ IF go_home THEN GoHomePublished ELSE UNCHANGED homing
    /\ pc' = IF MainBreaks(commands_from_controllers_, whole_body) THEN "done" ELSE "spin"
    /\ last_op' = [op |-> "main", arg |-> << >>]
    /\ pre' = Snapshot
    /\ home_signals' = {}
    /\ UNCHANGED accepted
    /\ UNCHANGED << utilities, commands_from_controllers_, flags, status_, stored, listening >>

DriverCheck ==
    LET whole_body == MainPublishesWholeBody(commands_from_controllers_,
                                             publish_commands_, stop_node_)
        go_home == MainPublishesGoHome(commands_from_controllers_,
                                       publish_go_home_command_)
    IN
    /\ pc = "check"
    /\ published' =
           (IF whole_body
            THEN publishWholeBodyMessage(commands_from_controllers_, controlled_links_,
                                         tf_pelvis_wrt_world_, q_joint_)
            ELSE << >>)
           \o (IF go_home
               THEN publishGoHomeMessage(home_left_arm_, home_right_arm_,
                                         home_chest_, home_pelvis_)
               ELSE << >>)
    /\ IF go_home THEN GoHomePublished ELSE UNCHANGED homing
    \* one-shot: break after the single message
    /\ pc' = IF MainBreaks(commands_from_controllers_, whole_body) THEN "done" ELSE "spin"
    /\ last_op' = [op |-> "main", arg |-> << >>]
    /\ pre' = Snapshot
    /\ home_signals' = {}
    /\ UNCHANGED accepted
    /\ UNCHANGED << utilities, commands_from_controllers_, flags, status_, stored, listening >>

SpinTransform ==
    /\ pc = "spin"
    /\ Subscribed("transformCallback", commands_from_controllers_)
    /\ \E tf_msg \in TransformMsgs : transformCallback(tf_msg)

SpinControlledLinkIds ==
    /\ pc = "spin"
    /\ Subscribed("controlledLinkIdsCallback", commands_from_controllers_)
    /\ \E arr_msg \in LinkIdMsgs : controlledLinkIdsCallback(arr_msg)

SpinJointCommand ==
    /\ pc = "spin"
    /\ Subscribed("jointCommandCallback", commands_from_controllers_)
    /\ \E js_msg \in JointStateMsgs : jointCommandCallback(js_msg)

SpinStatus ==
    /\ pc = "spin"
    /\ Subscribed("statusCallback", commands_from_controllers_)
    /\ \E status_msg \in StatusMsgs : statusCallback(status_msg)

\* spinOnce returns and the loop sleeps until the next tick
SpinDone ==
    /\ pc = "spin"
    /\ pc' = "check"
    /\ UNCHANGED << utilities, commands_from_controllers_, flags, homing, status_, stored,
                    history >>

Next ==
    \/ DriverCheck
    \/ SpinTransform
    \/ SpinControlledLinkIds
    \/ SpinJointCommand
    \/ SpinStatus
    \/ SpinDone

Spec == Init /\ [][Next]_vars

-----------------------------------------------------------------------------
(* The publish operations called without consulting the flags: a caller    *)
(* of the node's public interface other than main.                         *)

CallPublishWholeBodyMessage ==
    /\ pc = "check"
    /\ published' = publishWholeBodyMessage(commands_from_controllers_, controlled_links_,
                                            tf_pelvis_wrt_world_, q_joint_)
    /\ pc' = "spin"
    /\ last_op' = [op |-> "publishWholeBodyMessage", arg |-> << >>]
    /\ pre' = Snapshot
    /\ UNCHANGED << home_signals, accepted >>
    /\ UNCHANGED << utilities, commands_from_controllers_, flags, homing, status_, stored,
                    listening >>

CallPublishGoHomeMessage ==
    /\ pc = "check"
    /\ published' = publishGoHomeMessage(home_left_arm_, home_right_arm_,
                                         home_chest_, home_pelvis_)
    /\ GoHomePublished
    /\ pc' = "spin"
    /\ last_op' = [op |-> "publishGoHomeMessage", arg |-> << >>]
    /\ pre' = Snapshot
    /\ home_signals' = {}
    /\ UNCHANGED accepted
    /\ UNCHANGED << utilities, commands_from_controllers_, flags, status_, stored, listening >>

\* updateStopNodeFlag() called from outside main: the stop flag is recomputed
\* from the two receive flags and nothing is handed to the transport
CallUpdateStopNodeFlag ==
    /\ pc = "check"
    /\ stop_node_' = updateStopNodeFlag(receive_pelvis_transform_, receive_joint_command_)
    /\ published' = << >>
    /\ pc' = "spin"
    /\ last_op' = [op |-> "updateStopNodeFlag", arg |-> << >>]
    /\ pre' = Snapshot
    /\ UNCHANGED << home_signals, accepted >>
    /\ UNCHANGED << utilities, commands_from_controllers_, receive_pelvis_transform_,
                    receive_joint_command_, receive_link_ids_,
                    received_pelvis_transform_, received_joint_command_,
                    received_link_ids_, publish_commands_,
                    homing, status_, stored, listening >>

NextAPI ==
    \/ CallPublishWholeBodyMessage
    \/ CallPublishGoHomeMessage
    \/ CallUpdateStopNodeFlag
    \/ SpinTransform
    \/ SpinControlledLinkIds
    \/ SpinJointCommand
    \/ SpinStatus
    \/ SpinDone

SpecAPI == Init /\ [][NextAPI]_vars

-----------------------------------------------------------------------------
(* The assembly of the whole-body message over its inputs: the node at a    *)
(* tick of main with its data received, for every set of controlled links  *)
(* a link-id message can leave, and the tick that publishes.                *)

LinkIds ==
    { link_pelvis, link_torso, link_rightCOP_Frame, link_leftCOP_Frame,
      link_rightPalm, link_leftPalm, link_head }

\* the ids of a set as the data of a link-id message, in ascending order
RECURSIVE LinkIdData(_)
LinkIdData(ids) ==
    IF ids = {} THEN << >>
    ELSE LET least == CHOOSE x \in ids : \A y \in ids : x <= y
         IN << least >> \o LinkIdData(ids \ {least})

InitAssembly ==
    /\ commands_from_controllers_ \in BOOLEAN
    \* continuous: START-LISTENING was processed; one-shot: both updates accepted
    /\ receive_pelvis_transform_ = commands_from_controllers_
    /\ receive_joint_command_ = commands_from_controllers_
    /\ receive_link_ids_ = commands_from_controllers_
    /\ received_pelvis_transform_ = TRUE
    /\ received_joint_command_ = TRUE
    /\ received_link_ids_ = TRUE
    /\ publish_commands_ =
           updatePublishCommandsFlag(received_pelvis_transform_, received_link_ids_,
                                     received_joint_command_)
    /\ stop_node_ = updateStopNodeFlag(receive_pelvis_transform_, receive_joint_command_)
    /\ accepted \in
           [pose : {<< m >> : m \in TransformMsgs},
            joints : {<< m >> : m \in JointStateMsgs},
            links : IF commands_from_controllers_
                    THEN {<< LinkIdData(ids) >> : ids \in SUBSET LinkIds}
                    ELSE {<< >>}]
    /\ controlled_links_ =
           IF commands_from_controllers_ THEN Vec(accepted.links[1])
           ELSE DefaultControlledLinks
    /\ tf_pelvis_wrt_world_ = StoredTransform(accepted.pose[1])
    /\ q_joint_ = JointCommand(accepted.joints[1])
    /\ home_left_arm_ = FALSE
    /\ home_right_arm_ = FALSE
    /\ home_chest_ = FALSE
    /\ home_pelvis_ = FALSE
    /\ publish_go_home_command_ = FALSE
    /\ status_ = IF commands_from_controllers_ THEN "START-LISTENING" ELSE ""
    /\ listening = IF commands_from_controllers_ THEN "on" ELSE "never"
    /\ pc = "check"
    /\ published = << >>
    /\ last_op = [op |-> "spinOnce", arg |-> << >>]
    /\ pre = Snapshot
    /\ home_signals = {}
    /\ NoUtilityCall

NextAssembly == DriverCheck

SpecAssembly == InitAssembly /\ [][NextAssembly]_vars

-----------------------------------------------------------------------------
(* One-shot mode with the loop of main scheduled fairly: an iteration that  *)
(* can check the flags does, and spinOnce returns, since it runs only the   *)
(* callbacks of the messages that have arrived.  Nothing is assumed of the  *)
(* arrival of messages.  Only the pose and joint topics are subscribed.     *)

InitOneShot == Init /\ ~commands_from_controllers_

NextOneShot ==
    \/ DriverCheck
    \/ SpinTransform
    \/ SpinJointCommand
    \/ SpinDone

SpecOneShot ==
    /\ InitOneShot
    /\ [][NextOneShot]_vars
    /\ WF_vars(DriverCheck)
    /\ WF_vars(SpinDone)

-----------------------------------------------------------------------------
(* selectRelevantJointsConfiguration called on its own: the arguments are   *)
(* the configuration vectors and index lists of the assembly, and small     *)
(* vectors with every index list of sentinels and slots up to a length.     *)

\* the configuration vectors the node prepares
PreparedConfigurations ==
    { prepareConfigurationVector(StoredTransform(m), JointCommand(js)) :
          m \in TransformMsgs, js \in JointStateMsgs }

\* the index lists of the body parts
BodyPartJointIndices ==
    { getRelevantJointIndicesPelvis, getRelevantJointIndicesTorso,
      getRelevantJointIndicesLeftArm, getRelevantJointIndicesNeck,
      getRelevantJointIndicesRightArm }

\* every index list up to MaxIndices entries, each the sentinel or a slot
SmallJointIndices ==
    UNION { [0..(n - 1) -> {-1} \cup 0..(SelSlots - 1)] : n \in 0..MaxIndices }

InitSelect ==
    /\ IHMCInterfaceNode
    /\ \/ /\ util_q \in PreparedConfigurations
          /\ util_joint_indices \in BodyPartJointIndices
       \/ /\ util_q \in [0..(SelSlots - 1) -> 0..SelMaxVal]
          /\ util_joint_indices \in SmallJointIndices
    /\ util_q_joints = Zero(0)
    /\ util_wholebody_msg = WholeBodyTrajectoryMessage

CallSelectRelevantJointsConfiguration ==
    /\ util_q_joints' = selectRelevantJointsConfiguration(util_q, util_joint_indices)
    /\ last_op' = [op |-> "selectRelevantJointsConfiguration", arg |-> << >>]
    /\ UNCHANGED << util_q, util_joint_indices, util_wholebody_msg >>
    /\ UNCHANGED << published, listening, pre, home_signals, accepted >>
    /\ UNCHANGED << commands_from_controllers_, flags, homing, status_, stored, pc >>

NextSelect == CallSelectRelevantJointsConfiguration

SpecSelect == InitSelect /\ [][NextSelect]_vars

-----------------------------------------------------------------------------
(* makeIHMCWholeBodyTrajectoryMessage called again and again on one message *)
(* object that its caller keeps, with changing configurations, controlled   *)
(* links and message parameters.                                            *)

\* the configuration vectors of the calls
ReuseConfigurations ==
    { prepareConfigurationVector(StoredTransform(m), JointCommand(js)) :
          m \in TransformMsgs, js \in { FullJointState, PartialJointState } }

InitReuse ==
    /\ IHMCInterfaceNode
    /\ NoUtilityCall

CallMakeIHMCWholeBodyTrajectoryMessage ==
    /\ \E q \in ReuseConfigurations, links \in LinkIdMsgs, from_controllers \in BOOLEAN :
           /\ util_wholebody_msg' =
                  makeIHMCWholeBodyTrajectoryMessage(
                      q, util_wholebody_msg,
                      WholeBodyMessageParameters(from_controllers, Vec(links)))
           /\ last_op' = [op |-> "makeIHMCWholeBodyTrajectoryMessage",
                          arg |-> [q |-> q, controlled_links |-> Vec(links),
                                   from_controllers |-> from_controllers]]
    /\ UNCHANGED << util_q, util_joint_indices, util_q_joints >>
    /\ UNCHANGED << published, listening, pre, home_signals, accepted >>
    /\ UNCHANGED << commands_from_controllers_, flags, homing, status_, stored, pc >>

NextReuse == CallMakeIHMCWholeBodyTrajectoryMessage

SpecReuse == InitReuse /\ [][NextReuse]_vars

-----------------------------------------------------------------------------
(* Vocabulary of the properties *)

\* the whole-body messages among what a step handed to the transport
WholeBodyMessages(out) ==
    Cardinality({i \in 1..Len(out) : out[i].topic = "whole_body_trajectory"})

AllReceived ==
    received_pelvis_transform_ /\ received_link_ids_ /\ received_joint_command_

LastStatus(data) ==
    last_op.op = "statusCallback" /\ last_op.arg = data

\* the joint slots (indices of q_joint_) that the known names of js_msg write
WrittenSlots(js_msg) ==
    {joint_names_to_indices[js_msg.name[i]] - num_virtual :
        i \in {k \in 1..Len(js_msg.position) :
                  js_msg.name[k] \in DOMAIN joint_names_to_indices}}

HasUnknownName(js_msg) ==
    \E i \in 1..Len(js_msg.position) : js_msg.name[i] \notin DOMAIN joint_names_to_indices

\* the last step was jointCommandCallback, and it accepted its message
LastJointAccepted ==
    last_op.op = "jointCommandCallback" /\ pre.receive_joint_command

-----------------------------------------------------------------------------
(* Properties *)

\* C1: in both modes and in every reachable state, the initial one included,
\* getPublishCommandsFlag() is true exactly when received-pose, received-links
\* and received-joints are all true.
C1_PublishIffAllReceived ==
    publish_commands_ <=> AllReceived

\* C1 witness: continuous mode, a callback has just completed the three
\* inputs: two were received before it, and the flag is now true.
C1_Witness ==
    /\ commands_from_controllers_
    /\ last_op.op \in {"transformCallback", "jointCommandCallback",
                       "controlledLinkIdsCallback"}
    /\ ~pre.publish_commands
    /\ publish_commands_
    /\ AllReceived

\* C2 as claimed: in every reachable state, from construction on,
\* getStopNodeFlag() is true exactly when the pose-accepting and the
\* joints-accepting flags are both false.
C2_StopIffNotAccepting ==
    stop_node_ <=> (~receive_pelvis_transform_ /\ ~receive_joint_command_)

\* C3: in continuous mode every driver tick hands exactly one whole-body
\* message to the transport if getPublishCommandsFlag() is true at the tick,
\* and none if it is false.
C3_ContinuousTickPublishes ==
    [][ (commands_from_controllers_ /\ pc = "check" /\ pc' # "check")
        => WholeBodyMessages(published') = (IF publish_commands_ THEN 1 ELSE 0) ]_vars

\* C3 witness: continuous mode, the tick just taken found the flag true and
\* published one whole-body message.
C3_Witness ==
    /\ commands_from_controllers_
    /\ last_op.op = "main"
    /\ pre.publish_commands
    /\ WholeBodyMessages(published) = 1

\* C4: in one-shot mode a driver tick emits exactly one whole-body message
\* once a pose and a joint update have both been received, and leaves the
\* loop with it; a tick before that emits nothing and goes on; no callback
\* emits; and no step at all is taken once the loop is left, so that no
\* second message is emitted.
C4_OneShotSingleMessage ==
    [][ ~commands_from_controllers_
        => /\ pc # "done"
           /\ (pc = "spin") => (published' = << >> /\ pc' # "done")
           /\ (pc = "check" /\ received_pelvis_transform_ /\ received_joint_command_)
                  => (WholeBodyMessages(published') = 1 /\ Len(published') = 1
                      /\ pc' = "done")
           /\ (pc = "check" /\ ~(received_pelvis_transform_ /\ received_joint_command_))
                  => (published' = << >> /\ pc' = "spin") ]_vars

\* C4 witness: one-shot mode, the loop has been left with the single
\* whole-body message.
C4_Witness ==
    /\ ~commands_from_controllers_
    /\ pc = "done"
    /\ last_op.op = "main"
    /\ WholeBodyMessages(published) = 1

\* C5 as claimed: publishWholeBodyMessage invoked while
\* getPublishCommandsFlag() is false hands nothing to the transport.
C5_PublishRefusedWhenNotReady ==
    [][ (last_op'.op = "publishWholeBodyMessage" /\ pc = "check" /\ ~publish_commands_)
        => published' = << >> ]_vars

\* C6: after STOP-LISTENING has been processed, in whatever state it found
\* the node, the three accepting flags and the three received flags are
\* false, getPublishCommandsFlag() is false and getStopNodeFlag() is true.
C6_StopListeningResets ==
    LastStatus("STOP-LISTENING")
    => /\ ~receive_pelvis_transform_ /\ ~receive_joint_command_ /\ ~receive_link_ids_
       /\ ~received_pelvis_transform_ /\ ~received_joint_command_ /\ ~received_link_ids_
       /\ ~publish_commands_
       /\ stop_node_

\* C6 witness: STOP-LISTENING processed mid-aggregation, the pose received
\* and the joints not yet.
C6_Witness ==
    /\ LastStatus("STOP-LISTENING")
    /\ pre.receive_pelvis_transform
    /\ pre.received_pelvis_transform
    /\ ~pre.received_joint_command
    /\ stop_node_

\* C7: a step that processes START-LISTENING leaves the three accepting
\* flags true, the three received flags false, getPublishCommandsFlag() false
\* and getStopNodeFlag() false; a received flag becomes true only in the
\* step of its own callback; and a tick of the continuous driver emits a
\* whole-body message only with the three received flags true.
C7_StartListeningRearms ==
    [][ /\ (last_op'.op = "statusCallback" /\ last_op'.arg = "START-LISTENING"
            /\ pc = "spin")
           => /\ receive_pelvis_transform_' /\ receive_joint_command_' /\ receive_link_ids_'
              /\ ~received_pelvis_transform_' /\ ~received_joint_command_'
              /\ ~received_link_ids_'
              /\ ~publish_commands_'
              /\ ~stop_node_'
        /\ (received_pelvis_transform_' /\ ~received_pelvis_transform_)
           => (last_op'.op = "transformCallback" /\ pc = "spin")
        /\ (received_joint_command_' /\ ~received_joint_command_)
           => (last_op'.op = "jointCommandCallback" /\ pc = "spin")
        /\ (received_link_ids_' /\ ~received_link_ids_)
           => (last_op'.op = "controlledLinkIdsCallback" /\ pc = "spin")
        /\ (commands_from_controllers_ /\ pc = "check"
            /\ WholeBodyMessages(published') > 0)
           => AllReceived ]_vars

\* C7 witness: START-LISTENING processed in a state that was ready to
\* publish.
C7_Witness ==
    /\ LastStatus("START-LISTENING")
    /\ pre.publish_commands
    /\ ~publish_commands_
    /\ receive_link_ids_

\* C8: in continuous mode a whole-body message is handed to the transport
\* only while the last START/STOP signal processed is START-LISTENING: none
\* before the first START-LISTENING, none after a STOP-LISTENING until the
\* next START-LISTENING.
C8_NothingPublishedUnlessListening ==
    (commands_from_controllers_ /\ WholeBodyMessages(published) > 0)
    => listening = "on"

\* C8 witness: a tick of the continuous driver taken after STOP-LISTENING,
\* with joint values stored from before it, published no whole-body message.
C8_Witness ==
    /\ commands_from_controllers_
    /\ listening = "off"
    /\ last_op.op = "main"
    /\ WholeBodyMessages(published) = 0
    /\ Size(q_joint_) = num_act_joint

\* C9: in one-shot mode the controlled links are the seven default links in
\* every reachable state and received-links stays true.
C9_OneShotDefaultLinks ==
    ~commands_from_controllers_
    => /\ Elems(controlled_links_) =
              { link_pelvis, link_torso, link_rightCOP_Frame, link_leftCOP_Frame,
                link_rightPalm, link_leftPalm, link_head }
       /\ Size(controlled_links_) = 7
       /\ received_link_ids_

\* C9 witness: one-shot mode after a pose and a joint update were accepted.
C9_Witness ==
    /\ ~commands_from_controllers_
    /\ received_pelvis_transform_
    /\ received_joint_command_
    /\ received_link_ids_

\* C10 as claimed: after an accepted joint update with a name that is not
\* in the joint-name index, every joint slot that the known names of the
\* update do not write holds the value it held before the update.
C10_OtherSlotsKeepValue ==
    (LastJointAccepted /\ HasUnknownName(last_op.arg))
    => \A i \in DOMAIN pre.q_joint :
           i \notin WrittenSlots(last_op.arg) => q_joint_[i] = pre.q_joint[i]

\* C10 amended: after an accepted joint update with a name that is not in
\* the joint-name index, every joint slot that the known names of the update
\* do not write holds 0, whatever it held before; the unknown name writes
\* no slot.
C10_OtherSlotsZero ==
    (LastJointAccepted /\ HasUnknownName(last_op.arg))
    => /\ Size(q_joint_) = num_act_joint
       /\ \A i \in DOMAIN q_joint_ :
              i \notin WrittenSlots(last_op.arg) => q_joint_[i] = 0

\* C10 witness: an accepted joint update with an unknown name, arriving
\* when a slot it does not write held a non-zero value.
C10_Witness ==
    /\ LastJointAccepted
    /\ HasUnknownName(last_op.arg)
    /\ \E i \in DOMAIN pre.q_joint :
           /\ i \notin WrittenSlots(last_op.arg)
           /\ pre.q_joint[i] # 0
           /\ q_joint_[i] = 0
    /\ q_joint_[joint_names_to_indices["neckYaw"] - num_virtual] = 1

\* the value js_msg gives to a joint slot: the position paired with the last
\* occurrence of the slot's name
UpdateValue(js_msg, slot) ==
    LET occurrences == {k \in 1..Len(js_msg.position) :
                           /\ js_msg.name[k] \in DOMAIN joint_names_to_indices
                           /\ joint_names_to_indices[js_msg.name[k]] - num_virtual = slot}
        last == CHOOSE k \in occurrences : \A o \in occurrences : o <= k
    IN js_msg.position[last]

\* C11: an accepted joint update is a full replace.  After it q_joint_ has
\* one slot per actuated joint; each slot whose name appears in the update
\* holds the update's value for that name, at the slot the joint-name index
\* gives; every other slot holds 0, whatever earlier updates had set.
C11_FullReplace ==
    LastJointAccepted
    => /\ Size(q_joint_) = num_act_joint
       /\ \A i \in DOMAIN q_joint_ :
              q_joint_[i] = IF i \in WrittenSlots(last_op.arg)
                            THEN UpdateValue(last_op.arg, i)
                            ELSE 0

\* C11 witness: the partial update accepted after the full one: its two
\* known names hold its values, the slots the full update had set are 0.
C11_Witness ==
    /\ LastJointAccepted
    /\ last_op.arg = PartialJointState
    /\ pre.q_joint = JointCommand(FullJointState)
    /\ \A i \in DOMAIN pre.q_joint : pre.q_joint[i] # 0
    /\ q_joint_[joint_names_to_indices["leftShoulderPitch"] - num_virtual] = 2
    /\ q_joint_[joint_names_to_indices["neckYaw"] - num_virtual] = 1
    /\ Cardinality({i \in DOMAIN q_joint_ : q_joint_[i] = 0}) = num_act_joint - 2

\* js_msg without the pairs whose name is not in the joint-name index
KnownPairs(js_msg) ==
    LET pairs == [k \in 1..Len(js_msg.position) |->
                     << js_msg.name[k], js_msg.position[k] >>]
        known == SelectSeq(pairs, LAMBDA p : p[1] \in DOMAIN joint_names_to_indices)
    IN [name |-> [k \in 1..Len(known) |-> known[k][1]],
        position |-> [k \in 1..Len(known) |-> known[k][2]]]

\* C12: unknown joint names are ignored.  The state jointCommandCallback
\* leaves after a joint update U (joint values, received-joints,
\* accepting-joints, canPublish, shouldStop) is the state it leaves, from the
\* same state before, after U without the pairs whose name is not in the
\* joint-name index; also when no pair of U remains.
C12_UnknownNamesIgnored ==
    last_op.op = "jointCommandCallback"
    => LET known == KnownPairs(last_op.arg)
           accept == pre.receive_joint_command
           received == accept \/ pre.received_joint_command
           receive == IF accept /\ ~commands_from_controllers_ THEN FALSE
                      ELSE pre.receive_joint_command
       IN /\ q_joint_ = IF accept THEN JointCommand(known) ELSE pre.q_joint
          /\ received_joint_command_ = received
          /\ receive_joint_command_ = receive
          /\ publish_commands_ =
                 updatePublishCommandsFlag(pre.received_pelvis_transform,
                                           pre.received_link_ids, received)
          /\ stop_node_ = updateStopNodeFlag(pre.receive_pelvis_transform, receive)

\* C12 witness: an accepted update whose only name is unknown, arriving
\* after a full update: no pair of it remains, the joint values are all 0
\* and the joints count as received.
C12_Witness ==
    /\ LastJointAccepted
    /\ last_op.arg = UnknownJointState
    /\ HasUnknownName(last_op.arg)
    /\ KnownPairs(last_op.arg) = EmptyJointState
    /\ pre.q_joint = JointCommand(FullJointState)
    /\ q_joint_ = Zero(num_act_joint)
    /\ received_joint_command_

\* the step is the callback op: spinOnce is running and the step's record
\* names the callback
CallbackStep(op) ==
    pc = "spin" /\ pc' = "spin" /\ last_op'.op = op

\* the accepting and received flags
ReceiveFlags ==
    << receive_pelvis_transform_, receive_joint_command_, receive_link_ids_,
       received_pelvis_transform_, received_joint_command_, received_link_ids_ >>

\* C13: a pose, joint or link-set update that arrives while its own
\* accepting flag is false changes neither the stored pose, joint values and
\* controlled links nor any accepting or received flag; one that arrives
\* while its accepting flag is true stores its data, sets its received flag,
\* and leaves its accepting flag true in continuous mode and false in
\* one-shot mode.
C13_UpdateFrame ==
    [][/\ CallbackStep("transformCallback")
          => IF receive_pelvis_transform_
             THEN /\ tf_pelvis_wrt_world_' = StoredTransform(last_op'.arg)
                  /\ received_pelvis_transform_'
                  /\ receive_pelvis_transform_' = commands_from_controllers_
             ELSE UNCHANGED << stored, ReceiveFlags >>
       /\ CallbackStep("jointCommandCallback")
          => IF receive_joint_command_
             THEN /\ q_joint_' = JointCommand(last_op'.arg)
                  /\ received_joint_command_'
                  /\ receive_joint_command_' = commands_from_controllers_
             ELSE UNCHANGED << stored, ReceiveFlags >>
       /\ CallbackStep("controlledLinkIdsCallback")
          => IF receive_link_ids_
             THEN /\ controlled_links_' = Vec(last_op'.arg)
                  /\ received_link_ids_'
                  /\ receive_link_ids_' = commands_from_controllers_
             ELSE UNCHANGED << stored, ReceiveFlags >>
      ]_vars

\* C13 witness: in one-shot mode a second pose arrived after the first had
\* been stored: the node was no longer accepting poses, and the pose it
\* holds is not the one of the update.
C13_Witness ==
    /\ ~commands_from_controllers_
    /\ last_op.op = "transformCallback"
    /\ ~pre.receive_pelvis_transform
    /\ pre.received_pelvis_transform
    /\ received_pelvis_transform_
    /\ ~receive_pelvis_transform_
    /\ tf_pelvis_wrt_world_ # StoredTransform(last_op.arg)

\* the last step was controlledLinkIdsCallback, and it accepted its message
LastLinkIdsAccepted ==
    last_op.op = "controlledLinkIdsCallback" /\ pre.receive_link_ids

\* C14: an accepted link-set update replaces the controlled links
\* wholesale: afterwards the controlled links are the identifiers of the
\* update, as many and in its order, with nothing of earlier updates; an
\* empty update leaves no controlled link; received-links is true either way.
C14_LinksReplaced ==
    LastLinkIdsAccepted
    => /\ Elems(controlled_links_) = {last_op.arg[k] : k \in 1..Len(last_op.arg)}
       /\ Size(controlled_links_) = Len(last_op.arg)
       /\ \A k \in 1..Len(last_op.arg) : controlled_links_[k - 1] = last_op.arg[k]
       /\ received_link_ids_

\* C14 witness: an empty update accepted when five links were controlled:
\* none is left and the links count as received.
C14_Witness ==
    /\ LastLinkIdsAccepted
    /\ last_op.arg = << >>
    /\ Size(pre.controlled_links) = 5
    /\ link_head \in Elems(pre.controlled_links)
    /\ Elems(controlled_links_) = {}
    /\ received_link_ids_

HomeParts == {"left_arm", "right_arm", "chest", "pelvis"}

\* msg is a home command for the body part: arms are told apart by the side
IsHomeCommandFor(msg, part) ==
    CASE part = "left_arm" -> msg.humanoid_body_part = "ARM" /\ msg.robot_side = "LEFT"
      [] part = "right_arm" -> msg.humanoid_body_part = "ARM" /\ msg.robot_side = "RIGHT"
      [] part = "chest" -> msg.humanoid_body_part = "CHEST"
      [] part = "pelvis" -> msg.humanoid_body_part = "PELVIS"

\* the home commands for the body part among what a step handed to the
\* transport
HomeCommands(out, part) ==
    Cardinality({i \in 1..Len(out) :
                    out[i].topic = "go_home" /\ IsHomeCommandFor(out[i].msg, part)})

\* the step is a call of publishGoHomeMessage from outside main
BuildStep ==
    pc = "check" /\ last_op'.op = "publishGoHomeMessage"

\* C15: for each of left arm, right arm, chest and pelvis, a call of
\* publishGoHomeMessage after a Home signal for the part hands exactly one
\* home command for it to the transport (an arm command with the side of
\* the arm), and a call with no Home signal since the call before hands
\* nothing to the transport.
C15_OneHomeCommandPerRequest ==
    [][BuildStep
       => /\ \A part \in HomeParts :
                 HomeCommands(published', part) =
                     IF part \in home_signals THEN 1 ELSE 0
          /\ home_signals = {} => published' = << >>
      ]_vars

\* C15 witness: after HOME-RIGHTARM a call of publishGoHomeMessage has sent
\* the command, and the call that just ran, with no new signal, sent
\* nothing.
C15_Witness ==
    /\ status_ = "HOME-RIGHTARM"
    /\ last_op.op = "publishGoHomeMessage"
    /\ published = << >>
    /\ home_signals = {}
    /\ ~home_right_arm_
    /\ ~publish_go_home_command_

\* the go-home messages among what a step handed to the transport
GoHomeMessages(out) ==
    Cardinality({i \in 1..Len(out) : out[i].topic = "go_home"})

AnyHomeRequest ==
    home_left_arm_ \/ home_right_arm_ \/ home_chest_ \/ home_pelvis_

\* C16: in every reachable state getPublishGoHomeCommandFlag() is the OR
\* of the four homing flags; no callback hands a home command to the
\* transport, and a tick of main hands one only when the flag is true at
\* that tick.
C16_GoHomeFlagIsOr ==
    [][/\ publish_go_home_command_ <=> AnyHomeRequest
       /\ publish_go_home_command_' <=> AnyHomeRequest'
       /\ (pc = "spin" /\ pc' = "spin") => GoHomeMessages(published') = 0
       /\ (pc = "check" /\ ~publish_go_home_command_) => GoHomeMessages(published') = 0
      ]_vars

\* C16 witness: a tick of main in continuous mode has just sent the chest
\* and pelvis home commands; the four flags and their OR are false again.
C16_Witness ==
    /\ commands_from_controllers_
    /\ last_op.op = "main"
    /\ GoHomeMessages(published) = 2
    /\ HomeCommands(published, "chest") = 1
    /\ HomeCommands(published, "pelvis") = 1
    /\ ~AnyHomeRequest
    /\ ~publish_go_home_command_

\* the homing flag of a body part
HomeFlag(part) ==
    CASE part = "left_arm" -> home_left_arm_
      [] part = "right_arm" -> home_right_arm_
      [] part = "chest" -> home_chest_
      [] part = "pelvis" -> home_pelvis_

\* the flagged body parts, in the order left arm, right arm, chest, pelvis
FlaggedInOrder ==
    SelectSeq(<< "left_arm", "right_arm", "chest", "pelvis" >>, HomeFlag)

\* C17: one call of publishGoHomeMessage hands to the transport one home
\* command per flagged body part and nothing else, in the order left arm,
\* right arm, chest, pelvis, whichever of the four flags are set, and leaves
\* the four flags and getPublishGoHomeCommandFlag() false.
C17_BuildSendsFlaggedInOrder ==
    [][BuildStep
       => /\ Len(published') = Len(FlaggedInOrder)
          /\ \A k \in 1..Len(FlaggedInOrder) :
                 /\ published'[k].topic = "go_home"
                 /\ IsHomeCommandFor(published'[k].msg, FlaggedInOrder[k])
          /\ ~home_left_arm_' /\ ~home_right_arm_' /\ ~home_chest_' /\ ~home_pelvis_'
          /\ ~publish_go_home_command_'
      ]_vars

\* C17 witness: a call with all four flags set has sent the four commands,
\* left arm first and pelvis last, and the flags are false.
C17_Witness ==
    /\ last_op.op = "publishGoHomeMessage"
    /\ Len(published) = 4
    /\ IsHomeCommandFor(published[1].msg, "left_arm")
    /\ IsHomeCommandFor(published[2].msg, "right_arm")
    /\ IsHomeCommandFor(published[3].msg, "chest")
    /\ IsHomeCommandFor(published[4].msg, "pelvis")
    /\ ~AnyHomeRequest
    /\ ~publish_go_home_command_

\* C18: in continuous mode no home request is lost and repeated requests
\* coalesce: a tick of main hands to the transport, for each body part, one
\* home command if a Home signal for the part was processed since the tick
\* before, however many and whatever other signals were processed in
\* between, and none otherwise.
C18_TickServesEachRequestOnce ==
    [][(commands_from_controllers_ /\ pc = "check")
       => \A part \in HomeParts :
              HomeCommands(published', part) = IF part \in home_signals THEN 1 ELSE 0
      ]_vars

\* C18 witness: HOME-CHEST and HOME-LEFTARM were processed, then
\* STOP-LISTENING, and the tick has sent the two home commands and no other.
C18_Witness ==
    /\ commands_from_controllers_
    /\ last_op.op = "main"
    /\ status_ = "STOP-LISTENING"
    /\ listening = "off"
    /\ HomeCommands(published, "chest") = 1
    /\ HomeCommands(published, "left_arm") = 1
    /\ GoHomeMessages(published) = 2
    /\ home_signals = {}

RecognizedStatuses ==
    { "STOP-LISTENING", "START-LISTENING", "HOME-LEFTARM", "HOME-RIGHTARM",
      "HOME-CHEST", "HOME-PELVIS" }

\* C19: a status signal whose string is not exactly one of the six
\* recognized values, the case of the letters included, changes no state:
\* the accepting, received, derived and homing flags and the recorded status
\* string are after statusCallback what they were before it.
C19_UnrecognizedStatusNoChange ==
    [][(CallbackStep("statusCallback") /\ last_op'.arg \notin RecognizedStatuses)
       => UNCHANGED << flags, homing, status_, stored >>
      ]_vars

\* C19 witness: "start-listening" in lower case arrived after
\* STOP-LISTENING: the node still accepts nothing and the recorded status is
\* still STOP-LISTENING.
C19_Witness ==
    /\ LastStatus("start-listening")
    /\ status_ = "STOP-LISTENING"
    /\ listening = "off"
    /\ ~receive_pelvis_transform_
    /\ ~receive_joint_command_
    /\ ~receive_link_ids_
    /\ ~pre.receive_pelvis_transform

Populated(sub_message) == sub_message.populated

\* the sub-parts of a whole-body message and the link each goes with
SubPartPopulation(msg, links) ==
    /\ Populated(msg.left_arm_trajectory_message) <=> link_leftPalm \in links
    /\ Populated(msg.right_arm_trajectory_message) <=> link_rightPalm \in links
    /\ Populated(msg.chest_trajectory_message) <=> link_torso \in links
    /\ Populated(msg.pelvis_trajectory_message) <=> link_pelvis \in links
    /\ Populated(msg.neck_trajectory_message) <=> link_head \in links
    /\ ~Populated(msg.spine_trajectory_message)
    /\ ~Populated(msg.left_foot_trajectory_message)
    /\ ~Populated(msg.right_foot_trajectory_message)

\* C20: for every set of controlled links, the whole-body message handed to
\* the transport has its left arm, right arm, chest, pelvis and neck parts
\* populated exactly when the left palm, right palm, torso, pelvis and head
\* link is in the set; the spine and the two foot parts are never populated,
\* also when the foot frames are in the set.
C20_SubPartsFollowLinks ==
    \A i \in 1..Len(published) :
        published[i].topic = "whole_body_trajectory"
        => SubPartPopulation(published[i].msg, Elems(controlled_links_))

\* C20 witness: a message was published with the two foot frames, the
\* torso and the left palm controlled: chest and left arm are populated,
\* the feet, the spine and the other parts are not.
C20_Witness ==
    /\ Elems(controlled_links_) =
           { link_rightCOP_Frame, link_leftCOP_Frame, link_torso, link_leftPalm }
    /\ WholeBodyMessages(published) = 1
    /\ Populated(published[1].msg.chest_trajectory_message)
    /\ Populated(published[1].msg.left_arm_trajectory_message)
    /\ ~Populated(published[1].msg.right_arm_trajectory_message)
    /\ ~Populated(published[1].msg.pelvis_trajectory_message)
    /\ ~Populated(published[1].msg.neck_trajectory_message)
    /\ ~Populated(published[1].msg.left_foot_trajectory_message)
    /\ ~Populated(published[1].msg.right_foot_trajectory_message)
    /\ ~Populated(published[1].msg.spine_trajectory_message)

\* the joint target of an arm or neck sub-message: the position of the
\* trajectory point of each of its joints, in the order of the joints
JointTarget(sub_message) ==
    LET joints == sub_message.jointspace_trajectory.joint_trajectory_messages
    IN [i \in DOMAIN joints |-> joints[i].trajectory_points[0].position]

\* the five modelled joints of the arm of a side ("left", "right") in the
\* configuration vector q, then the two zeros of the wrist
ArmTargetOf(q, side) ==
    Vec(<< q[valkyrie_joint(side \o "ShoulderPitch")],
           q[valkyrie_joint(side \o "ShoulderRoll")],
           q[valkyrie_joint(side \o "ShoulderYaw")],
           q[valkyrie_joint(side \o "ElbowPitch")],
           q[valkyrie_joint(side \o "ForearmYaw")], 0, 0 >>)

\* the configuration vector main publishes from in the current state
ConfigurationVector ==
    prepareConfigurationVector(tf_pelvis_wrt_world_, q_joint_)

\* C21: when the left or right palm is a controlled link, the arm part of
\* the published whole-body message has a joint target of exactly 7
\* elements: shoulder pitch, shoulder roll, shoulder yaw, elbow pitch and
\* forearm yaw of that side as the configuration vector holds them, in that
\* order, then two zeros.
C21_ArmTargetSevenElements ==
    \A i \in 1..Len(published) :
        published[i].topic = "whole_body_trajectory"
        => LET msg == published[i].msg
               links == Elems(controlled_links_)
           IN /\ link_leftPalm \in links
                 => /\ Size(JointTarget(msg.left_arm_trajectory_message)) = 7
                    /\ JointTarget(msg.left_arm_trajectory_message) =
                           ArmTargetOf(ConfigurationVector, "left")
              /\ link_rightPalm \in links
                 => /\ Size(JointTarget(msg.right_arm_trajectory_message)) = 7
                    /\ JointTarget(msg.right_arm_trajectory_message) =
                           ArmTargetOf(ConfigurationVector, "right")

\* C21 witness: a message published with both palms controlled and every
\* joint set by the full joint update: the left arm target starts with the
\* non-zero left shoulder pitch of the update and ends with two zeros.
C21_Witness ==
    /\ WholeBodyMessages(published) = 1
    /\ {link_leftPalm, link_rightPalm} \subseteq Elems(controlled_links_)
    /\ q_joint_ = JointCommand(FullJointState)
    /\ LET target == JointTarget(published[1].msg.left_arm_trajectory_message)
       IN /\ Size(target) = 7
          /\ JointNames[16] = "leftShoulderPitch"
          /\ target[0] = FullJointState.position[16]
          /\ \A k \in 0..4 : target[k] # 0
          /\ target[5] = 0
          /\ target[6] = 0

\* the trajectory point of the pelvis part of a whole-body message
PelvisPoint(msg) ==
    msg.pelvis_trajectory_message.se3_trajectory.taskspace_trajectory_points[0]

\* the pelvis part carries the root pose of the configuration vector q
PelvisIsRootPose(msg, q) ==
    /\ PelvisPoint(msg).position = << q[virtual_X], q[virtual_Y], q[virtual_Z] >>
    /\ PelvisPoint(msg).orientation =
           [x |-> q[virtual_Rx], y |-> q[virtual_Ry], z |-> q[virtual_Rz],
            w |-> q[virtual_Rw]]

\* position and quaternion of a pose update
PosePosition(tf_msg) == << tf_msg[1], tf_msg[2], tf_msg[3] >>
PoseQuaternion(tf_msg) ==
    [x |-> tf_msg[4], y |-> tf_msg[5], z |-> tf_msg[6], w |-> tf_msg[7]]
Negated(quat) == [x |-> -quat.x, y |-> -quat.y, z |-> -quat.z, w |-> -quat.w]

\* the published whole-body messages with the pelvis controlled
PelvisMessages ==
    {published[i].msg : i \in {k \in 1..Len(published) :
                                  /\ published[k].topic = "whole_body_trajectory"
                                  /\ link_pelvis \in Elems(controlled_links_)}}

\* C22 as claimed: with the pelvis controlled, position and orientation of
\* the pelvis part of a published message are the root pose of the
\* configuration vector, and are the position and the quaternion of the
\* pose update accepted last.
C22_PelvisIsAcceptedPose ==
    \A msg \in PelvisMessages :
        /\ PelvisIsRootPose(msg, ConfigurationVector)
        /\ accepted.pose # << >>
        /\ PelvisPoint(msg).position = PosePosition(accepted.pose[1])
        /\ PelvisPoint(msg).orientation = PoseQuaternion(accepted.pose[1])

\* C22 amended: with the pelvis controlled, position and orientation of the
\* pelvis part of a published message are the root pose of the
\* configuration vector, whatever the joint values; the position is that of
\* the pose update accepted last, and the orientation is the quaternion of
\* that update or its negation, which is the same rotation.
C22_PelvisIsAcceptedRotation ==
    \A msg \in PelvisMessages :
        /\ PelvisIsRootPose(msg, ConfigurationVector)
        /\ accepted.pose # << >>
        /\ PelvisPoint(msg).position = PosePosition(accepted.pose[1])
        /\ PelvisPoint(msg).orientation \in
               { PoseQuaternion(accepted.pose[1]),
                 Negated(PoseQuaternion(accepted.pose[1])) }

\* C22 witness: the pose accepted last had the quaternion (0,0,0,-1) and
\* the published pelvis part has its position and the orientation
\* (0,0,0,1), with joint values that are not all zero.
C22_Witness ==
    /\ PelvisMessages # {}
    /\ accepted.pose = << << 1, 2, 3, 0, 0, 0, -1 >> >>
    /\ \E i \in DOMAIN q_joint_ : q_joint_[i] # 0
    /\ \A msg \in PelvisMessages :
           /\ PelvisPoint(msg).position = << 1, 2, 3 >>
           /\ PelvisPoint(msg).orientation = [x |-> 0, y |-> 0, z |-> 0, w |-> 1]

\* the queueing properties of each populated part of a whole-body message
QueueingProperties(msg) ==
    {msg[part].jointspace_trajectory.queueing_properties :
        part \in {p \in {"left_arm_trajectory_message", "right_arm_trajectory_message",
                         "neck_trajectory_message"} : Populated(msg[p])}}
    \cup (IF Populated(msg.chest_trajectory_message)
          THEN {msg.chest_trajectory_message.so3_trajectory.queueing_properties}
          ELSE {})
    \cup (IF Populated(msg.pelvis_trajectory_message)
          THEN {msg.pelvis_trajectory_message.se3_trajectory.queueing_properties}
          ELSE {})

\* the times of the trajectory points of the joints of an arm or neck part
JointPointTimes(sub_message) ==
    LET joints == sub_message.jointspace_trajectory.joint_trajectory_messages
    IN {joints[i].trajectory_points[k].time :
           i \in DOMAIN joints, k \in DOMAIN joints[0].trajectory_points}

\* the times of the trajectory points of every populated part
PointTimes(msg) ==
    UNION {JointPointTimes(msg[part]) :
              part \in {p \in {"left_arm_trajectory_message",
                               "right_arm_trajectory_message",
                               "neck_trajectory_message"} : Populated(msg[p])}}
    \cup (IF Populated(msg.chest_trajectory_message)
          THEN LET points ==
                       msg.chest_trajectory_message.so3_trajectory.taskspace_trajectory_points
               IN {points[k].time : k \in DOMAIN points}
          ELSE {})
    \cup (IF Populated(msg.pelvis_trajectory_message)
          THEN LET points ==
                       msg.pelvis_trajectory_message.se3_trajectory.taskspace_trajectory_points
               IN {points[k].time : k \in DOMAIN points}
          ELSE {})

\* the whole-body messages the last step handed to the transport
PublishedWholeBody ==
    {published[i].msg : i \in {k \in 1..Len(published) :
                                  published[k].topic = "whole_body_trajectory"}}

\* C23: every whole-body message published in continuous mode carries, in
\* each populated part, execution mode 2 (stream), stream integration
\* duration 0.13 (13 hundredths) and trajectory point time 0.
C23_ContinuousStreams ==
    commands_from_controllers_
    => \A msg \in PublishedWholeBody :
           /\ \A queueing \in QueueingProperties(msg) :
                  /\ queueing.execution_mode = 2
                  /\ queueing.stream_integration_duration = 13
           /\ \A time \in PointTimes(msg) : time = 0

\* C23 witness: a message published in continuous mode with the five
\* parts populated, their points at time 0.
C23_Witness ==
    /\ commands_from_controllers_
    /\ PublishedWholeBody # {}
    /\ \A msg \in PublishedWholeBody :
           /\ Populated(msg.left_arm_trajectory_message)
           /\ Populated(msg.right_arm_trajectory_message)
           /\ Populated(msg.chest_trajectory_message)
           /\ Populated(msg.pelvis_trajectory_message)
           /\ Populated(msg.neck_trajectory_message)
           /\ PointTimes(msg) = {0}
           /\ PelvisPoint(msg).time = 0

\* C24: the whole-body message published in one-shot mode carries, in each
\* populated part, execution mode 0 (override) and trajectory point time
\* 1.0 (100 hundredths), and neither a stream integration duration nor a
\* previous message id is written into it; in either mode the duration is
\* written only with execution mode 2 and the previous message id only with
\* execution mode 1.
C24_OneShotOverrides ==
    \A msg \in PublishedWholeBody :
        /\ ~commands_from_controllers_
           => /\ \A queueing \in QueueingProperties(msg) :
                     /\ queueing.execution_mode = 0
                     /\ queueing.stream_integration_duration = 0
                     /\ ~queueing.previous_message_id_set
              /\ \A time \in PointTimes(msg) : time = 100
        /\ \A queueing \in QueueingProperties(msg) :
               /\ queueing.stream_integration_duration # 0
                  => queueing.execution_mode = 2
               /\ queueing.previous_message_id_set => queueing.execution_mode = 1

\* C24 witness: the message of one-shot mode, its five parts populated, in
\* override mode with points at 1.0 and no duration.
C24_Witness ==
    /\ ~commands_from_controllers_
    /\ PublishedWholeBody # {}
    /\ \A msg \in PublishedWholeBody :
           /\ Cardinality(QueueingProperties(msg)) = 1
           /\ \A queueing \in QueueingProperties(msg) :
                  queueing.execution_mode = 0 /\ queueing.stream_integration_duration = 0
           /\ Populated(msg.neck_trajectory_message)
           /\ Populated(msg.pelvis_trajectory_message)
           /\ PointTimes(msg) = {100}

\* vectors with the same members as the vector links: reversed, repeated,
\* and in ascending order without repetitions
SameLinkSets(links) ==
    LET n == Size(links) IN
    { [i \in 0..(n - 1) |-> links[n - 1 - i]],
      [i \in 0..(2 * n - 1) |-> links[i % n]],
      Vec(LinkIdData(Elems(links))) }

\* the whole-body message assembled in the current state of the node with
\* the vector links as the controlled links
AssembledWith(links) ==
    publishWholeBodyMessage(commands_from_controllers_, links,
                            tf_pelvis_wrt_world_, q_joint_)[1].msg

\* C25: assembly is deterministic and free of side effects.  The message a
\* tick of main publishes is the message assembled from the same
\* configuration vector and mode with the controlled links in any other
\* order or with repetitions (creation timestamps apart, which are not
\* modelled), and the tick changes none of the accepting, received and
\* derived flags nor the stored pose, joint values and links.
C25_AssemblyDeterministic ==
    [][pc = "check"
       => /\ \A msg \in PublishedWholeBody' :
                 \A links \in SameLinkSets(controlled_links_) :
                     Elems(links) = Elems(controlled_links_)
                     => AssembledWith(links) = msg
          /\ UNCHANGED << flags, stored >>
      ]_vars

\* C25 witness: a message was published with three links controlled, so
\* that the reversed vector is another vector, and the flags are those of
\* before the tick.
C25_Witness ==
    /\ last_op.op = "main"
    /\ PublishedWholeBody # {}
    /\ Size(controlled_links_) = 3
    /\ controlled_links_[0] # controlled_links_[2]
    /\ Cardinality(SameLinkSets(controlled_links_)) = 3
    /\ pre.publish_commands = publish_commands_
    /\ pre.stop_node = stop_node_
    /\ pre.q_joint = q_joint_

\* one-shot mode with the pose or the joints not yet received
InputMissing ==
    ~received_pelvis_transform_ \/ ~received_joint_command_

\* C26: there is no timeout.  In one-shot mode, with the loop of main
\* scheduled fairly: while the pose or the joint update is missing the loop
\* has not ended, nothing is handed to the transport and the node is still
\* accepting each missing input; the loop has ended only with both received
\* and its message published; and once both are received the loop ends.
C26_TerminatesIffBothDelivered ==
    /\ [](InputMissing
          => /\ pc # "done"
             /\ published = << >>
             /\ ~received_pelvis_transform_ => receive_pelvis_transform_
             /\ ~received_joint_command_ => receive_joint_command_)
    /\ [](pc = "done" => ~InputMissing /\ WholeBodyMessages(published) = 1)
    /\ (~InputMissing ~> pc = "done")

\* C26 witness: the loop has ended with both inputs received and its
\* message published.
C26_Witness ==
    /\ ~commands_from_controllers_
    /\ pc = "done"
    /\ ~InputMissing
    /\ WholeBodyMessages(published) = 1
    /\ accepted.pose # << >>
    /\ accepted.joints # << >>

\* C27: every whole-body message published in continuous mode is assembled
\* from the pose, the joint update and the link set accepted last, and each
\* of the three was accepted after the last START-LISTENING: nothing
\* accepted before a STOP- or START-LISTENING is published after it.
C27_PublishedFromFreshInputs ==
    commands_from_controllers_
    => \A msg \in PublishedWholeBody :
           /\ accepted.pose # << >>
           /\ accepted.joints # << >>
           /\ accepted.links # << >>
           /\ listening = "on"
           /\ msg = publishWholeBodyMessage(TRUE, Vec(accepted.links[1]),
                                            StoredTransform(accepted.pose[1]),
                                            JointCommand(accepted.joints[1]))[1].msg

\* C27 witness: in continuous mode a message was published from the pose
\* (3,2,1), the partial joint update and the four-entry link set, all
\* accepted since START-LISTENING.
C27_Witness ==
    /\ commands_from_controllers_
    /\ PublishedWholeBody # {}
    /\ status_ = "START-LISTENING"
    /\ accepted.pose = << << 3, 2, 1, 0, 1, 0, 0 >> >>
    /\ accepted.joints = << PartialJointState >>
    /\ accepted.links = << << link_leftPalm, link_leftCOP_Frame, link_leftPalm, 99 >> >>
    /\ tf_pelvis_wrt_world_.origin = << 3, 2, 1 >>

\* C28: in one-shot mode the pose and the joint update the node has
\* accepted are the first delivered, no later delivery replaces them, and
\* the message main publishes is assembled from these two: a pose or joint
\* update delivered after the first one and before the publication, for
\* instance while the other input is awaited, alters nothing published.
C28_OneShotFirstInputs ==
    [][~commands_from_controllers_
       => /\ CallbackStep("transformCallback")
             => accepted.pose' = IF accepted.pose = << >> THEN << last_op'.arg >>
                                 ELSE accepted.pose
          /\ CallbackStep("jointCommandCallback")
             => accepted.joints' = IF accepted.joints = << >> THEN << last_op'.arg >>
                                   ELSE accepted.joints
          /\ pc = "check"
             => \A msg \in PublishedWholeBody' :
                    /\ accepted.pose # << >>
                    /\ accepted.joints # << >>
                    /\ msg = publishWholeBodyMessage(
                                 FALSE, DefaultControlledLinks,
                                 StoredTransform(accepted.pose[1]),
                                 JointCommand(accepted.joints[1]))[1].msg
      ]_vars

\* C28 witness: in one-shot mode, with the joints still awaited, a second
\* pose with another position was delivered and ignored: the pose held is
\* that of the first.
C28_Witness ==
    /\ ~commands_from_controllers_
    /\ last_op.op = "transformCallback"
    /\ ~pre.receive_pelvis_transform
    /\ accepted.joints = << >>
    /\ ~received_joint_command_
    /\ accepted.pose # << >>
    /\ accepted.pose # << last_op.arg >>
    /\ PosePosition(accepted.pose[1]) # PosePosition(last_op.arg)
    /\ tf_pelvis_wrt_world_.origin = PosePosition(accepted.pose[1])

\* C29: in continuous mode, in every reachable state, the three accepting
\* flags have the same value, each received flag is true only if its
\* accepting flag is, and getPublishCommandsFlag() and getStopNodeFlag()
\* are not both true.
C29_ContinuousFlagRelations ==
    commands_from_controllers_
    => /\ receive_pelvis_transform_ = receive_joint_command_
       /\ receive_joint_command_ = receive_link_ids_
       /\ received_pelvis_transform_ => receive_pelvis_transform_
       /\ received_joint_command_ => receive_joint_command_
       /\ received_link_ids_ => receive_link_ids_
       /\ ~(publish_commands_ /\ stop_node_)

\* C29 witness: continuous mode with listening on, where the delivery of
\* the last missing input made the publish flag true: all three accepting
\* and received flags are true and the stop flag is false.
C29_Witness ==
    /\ commands_from_controllers_
    /\ listening = "on"
    /\ last_op.op = "controlledLinkIdsCallback"
    /\ ~pre.publish_commands
    /\ receive_pelvis_transform_ /\ receive_joint_command_ /\ receive_link_ids_
    /\ received_pelvis_transform_ /\ received_joint_command_ /\ received_link_ids_
    /\ publish_commands_
    /\ ~stop_node_

\* C30: in one-shot mode, in every reachable state, each accepting flag is
\* false exactly when its input has been received, and
\* getPublishCommandsFlag() is true if and only if getStopNodeFlag() is, so
\* the one-shot guard of the loop holds whenever the publish flag does.
C30_OneShotPublishIffStop ==
    ~commands_from_controllers_
    => /\ receive_pelvis_transform_ = ~received_pelvis_transform_
       /\ receive_joint_command_ = ~received_joint_command_
       /\ publish_commands_ <=> stop_node_

\* C30 witness: one-shot mode, the joint update arrived after the pose, and
\* this last delivery turned both the publish flag and the stop flag from
\* false to true.
C30_Witness ==
    /\ ~commands_from_controllers_
    /\ last_op.op = "jointCommandCallback"
    /\ ~pre.publish_commands
    /\ ~pre.stop_node
    /\ received_pelvis_transform_ /\ received_joint_command_
    /\ ~receive_pelvis_transform_ /\ ~receive_joint_command_
    /\ publish_commands_
    /\ stop_node_

\* the update callbacks of pose, joints and links
UpdateCallbacks ==
    { "transformCallback", "jointCommandCallback", "controlledLinkIdsCallback" }

\* C31: a Home signal changes no accepting flag, no received flag and
\* neither getPublishCommandsFlag() nor getStopNodeFlag(); START-LISTENING,
\* STOP-LISTENING and the pose, joint and link updates change no homing
\* flag; and a tick of main in continuous mode hands to the transport one
\* home command for every body part whose homing flag is set, also when the
\* last listening signal processed was STOP-LISTENING.
C31_HomingIndependentOfReadiness ==
    [][/\ (CallbackStep("statusCallback") /\ HomeSignalPart(last_op'.arg) # "")
          => UNCHANGED flags
       /\ (CallbackStep("statusCallback")
           /\ last_op'.arg \in { "START-LISTENING", "STOP-LISTENING" })
          => UNCHANGED homing
       /\ (\E op \in UpdateCallbacks : CallbackStep(op))
          => UNCHANGED homing
       /\ (commands_from_controllers_ /\ pc = "check")
          => \A part \in HomeParts :
                 HomeFlag(part) => HomeCommands(published', part) = 1
      ]_vars

\* C31 witness: HOME-PELVIS was processed, then STOP-LISTENING in the same
\* spin, and the tick that followed has sent the pelvis home command and
\* nothing else: the node publishes no whole-body message.
C31_Witness ==
    /\ commands_from_controllers_
    /\ last_op.op = "main"
    /\ status_ = "STOP-LISTENING"
    /\ listening = "off"
    /\ ~publish_commands_
    /\ stop_node_
    /\ Len(published) = 1
    /\ HomeCommands(published, "pelvis") = 1
    /\ ~home_pelvis_

\* the step is the processing of START-LISTENING or STOP-LISTENING
ListeningStep ==
    /\ CallbackStep("statusCallback")
    /\ last_op'.arg \in { "START-LISTENING", "STOP-LISTENING" }

\* C32: a tick of main, whatever it hands to the transport, changes no
\* accepting flag, no received flag and neither getPublishCommandsFlag()
\* nor getStopNodeFlag(); in continuous mode a true
\* getPublishCommandsFlag() stays true over every step that does not
\* process START-LISTENING or STOP-LISTENING, and every tick that finds it
\* true hands one whole-body message to the transport.
C32_EmissionKeepsReadiness ==
    [][/\ pc = "check" => UNCHANGED flags
       /\ (commands_from_controllers_ /\ publish_commands_ /\ ~ListeningStep)
          => publish_commands_'
       /\ (commands_from_controllers_ /\ publish_commands_ /\ pc = "check")
          => WholeBodyMessages(published') = 1
      ]_vars

\* C32 witness: continuous mode, a tick has sent a whole-body message and
\* home commands, spinOnce has returned without running any callback, and
\* the next tick finds the flags as the tick before did.
C32_Witness ==
    /\ commands_from_controllers_
    /\ pc = "check"
    /\ last_op.op = "main"
    /\ pre.publish_commands
    /\ WholeBodyMessages(published) = 1
    /\ GoHomeMessages(published) >= 1
    /\ publish_commands_
    /\ AllReceived
    /\ ~stop_node_

\* C33: a tick of main in continuous mode that finds both
\* getPublishCommandsFlag() and getPublishGoHomeCommandFlag() true hands to
\* the transport first the whole-body message and then the home commands,
\* the whole-body message built from the pose, joints and links and the
\* home commands from the homing flags that the tick found, those the
\* callbacks of the spin before left.
C33_TrajectoryBeforeHome ==
    [][(commands_from_controllers_ /\ pc = "check"
        /\ publish_commands_ /\ publish_go_home_command_)
       => /\ Len(published') = 1 + Len(FlaggedInOrder)
          /\ Len(FlaggedInOrder) >= 1
          /\ published'[1] =
                 publishWholeBodyMessage(TRUE, controlled_links_,
                                         tf_pelvis_wrt_world_, q_joint_)[1]
          /\ \A k \in 1..Len(FlaggedInOrder) :
                 /\ published'[k + 1].topic = "go_home"
                 /\ IsHomeCommandFor(published'[k + 1].msg, FlaggedInOrder[k])
      ]_vars

\* C33 witness: a tick of main in continuous mode has sent a whole-body
\* message followed by the left-arm and chest home commands.
C33_Witness ==
    /\ commands_from_controllers_
    /\ last_op.op = "main"
    /\ pre.publish_commands
    /\ Len(published) = 3
    /\ published[1].topic = "whole_body_trajectory"
    /\ published[2].topic = "go_home"
    /\ IsHomeCommandFor(published[2].msg, "left_arm")
    /\ published[3].topic = "go_home"
    /\ IsHomeCommandFor(published[3].msg, "chest")

\* C34: in one-shot mode, in every reachable state, no home command has
\* been handed to the transport, no status or link-id callback has run, and
\* the state a status signal would change is as the constructor left it:
\* the status string is empty, the homing flags and
\* getPublishGoHomeCommandFlag() are false, and the controlled links are
\* the default ones.
C34_OneShotNoStatusNoHome ==
    ~commands_from_controllers_
    => /\ GoHomeMessages(published) = 0
       /\ last_op.op \notin { "statusCallback", "controlledLinkIdsCallback" }
       /\ status_ = ""
       /\ listening = "never"
       /\ ~AnyHomeRequest
       /\ ~publish_go_home_command_
       /\ home_signals = {}
       /\ controlled_links_ = DefaultControlledLinks

\* C34 witness: one-shot mode at its end: both inputs were received, the
\* single whole-body message was sent and the loop was left, with no
\* status processed and no home command sent.
C34_Witness ==
    /\ ~commands_from_controllers_
    /\ pc = "done"
    /\ last_op.op = "main"
    /\ Len(published) = 1
    /\ WholeBodyMessages(published) = 1
    /\ status_ = ""
    /\ ~publish_go_home_command_

\* C35: for every configuration vector and every index list whose entries
\* are the sentinel -1 or slots of the vector,
\* selectRelevantJointsConfiguration yields a vector as long as the index
\* list whose i-th element is 0 where the i-th index is -1 and the value of
\* the configuration vector at the i-th index elsewhere; with the neck
\* indices it yields the three values of lowerNeckPitch, neckYaw and
\* upperNeckPitch, in this order.
C35_SliceByIndexList ==
    last_op.op = "selectRelevantJointsConfiguration"
    => /\ DOMAIN util_q_joints = 0..(Size(util_joint_indices) - 1)
       /\ \A i \in DOMAIN util_joint_indices :
              util_q_joints[i] = IF util_joint_indices[i] = -1 THEN 0
                                 ELSE util_q[util_joint_indices[i]]
       /\ util_joint_indices = getRelevantJointIndicesNeck
          => util_q_joints = Vec(<< util_q[valkyrie_joint("lowerNeckPitch")],
                                    util_q[valkyrie_joint("neckYaw")],
                                    util_q[valkyrie_joint("upperNeckPitch")] >>)

\* C35 witness: the routine has sliced a small vector by an index list that
\* names a slot, then the sentinel, then an earlier slot, the values of the
\* two slots not zero.
C35_Witness ==
    /\ last_op.op = "selectRelevantJointsConfiguration"
    /\ util_joint_indices = Vec(<< 1, -1, 0 >>)
    /\ util_q = Vec(<< 2, 1 >>)
    /\ util_q_joints = Vec(<< 1, 0, 2 >>)

\* the step is a call of makeIHMCWholeBodyTrajectoryMessage on the kept
\* message object
AssemblyCall ==
    last_op'.op = "makeIHMCWholeBodyTrajectoryMessage"

\* the jointspace sub-message holds n joint trajectories of one point each,
\* the point at rest
OnePointPerJoint(sub_message, n) ==
    LET joints == sub_message.jointspace_trajectory.joint_trajectory_messages IN
    /\ Size(joints) = n
    /\ \A i \in DOMAIN joints :
           /\ Size(joints[i].trajectory_points) = 1
           /\ joints[i].trajectory_points[0].velocity = 0

\* the chest sub-message holds one point, at rest
ChestOnePoint(sub_message) ==
    LET points == sub_message.so3_trajectory.taskspace_trajectory_points IN
    /\ Size(points) = 1
    /\ points[0].angular_velocity = << 0, 0, 0 >>

\* the pelvis sub-message holds one point, at rest
PelvisOnePoint(sub_message) ==
    LET points == sub_message.se3_trajectory.taskspace_trajectory_points IN
    /\ Size(points) = 1
    /\ points[0].linear_velocity = << 0, 0, 0 >>
    /\ points[0].angular_velocity = << 0, 0, 0 >>

\* every populated part of the message holds one point per trajectory, at
\* rest: seven joint trajectories for an arm, three for the neck
OnePointEverywhere(msg) ==
    /\ Populated(msg.left_arm_trajectory_message)
       => OnePointPerJoint(msg.left_arm_trajectory_message, 7)
    /\ Populated(msg.right_arm_trajectory_message)
       => OnePointPerJoint(msg.right_arm_trajectory_message, 7)
    /\ Populated(msg.neck_trajectory_message)
       => OnePointPerJoint(msg.neck_trajectory_message, 3)
    /\ Populated(msg.chest_trajectory_message)
       => ChestOnePoint(msg.chest_trajectory_message)
    /\ Populated(msg.pelvis_trajectory_message)
       => PelvisOnePoint(msg.pelvis_trajectory_message)

\* C36 as claimed: after every call of makeIHMCWholeBodyTrajectoryMessage,
\* on a fresh message object or on one that earlier calls wrote, every
\* populated part of the message holds exactly one trajectory point per
\* trajectory (one per joint for the arms and the neck, one for chest and
\* pelvis) with zero velocity, and every point of every populated part
\* carries the time of the mode of the call: 0 when streaming, 1.0
\* otherwise.
C36_OnePointPerTrajectory ==
    [][AssemblyCall
       => /\ OnePointEverywhere(util_wholebody_msg')
          /\ \A t \in PointTimes(util_wholebody_msg') :
                 t = IF last_op'.arg.from_controllers THEN 0 ELSE 100
      ]_vars

=============================================================================
